---- MODULE Spec2Model ----
(***************************************************************************)
(* Model of the JsMeetsStarlette messaging core: the connection registry   *)
(* (JsPyTextSocket / JsPyBinarySocket), the exposed-function engine and    *)
(* the call/push correlation engine (JsPyFunction, JsPyQueue), as they run *)
(* on the single asyncio reactor thread.                                   *)
(*                                                                         *)
(* Python integers are unbounded and the id counters wrap at 0xFFFFFFFF,   *)
(* which does not fit the model checker's machine integers.  A number n    *)
(* is therefore written as the pair <<n \div 65536, n % 65536>>; Succ and  *)
(* Greater are +1 and > on that representation.                            *)
(***************************************************************************)
EXTENDS Integers, Sequences, FiniteSets, TLC

\* ---------------------------------------------------------------- bounds
MaxConn == 3
\* ids are handed out only while the counter stays within MaxSerial of a wrap
MaxSerial == 4
\* inbound 'function'/'function_call' envelopes per behaviour
MaxInv == 5
\* expose()/clear() calls per behaviour
MaxExpose == 2
\* call(...)(*args) / push(...)(data) invocations per behaviour
MaxCall == 1
\* inbound envelopes served when tags and outcomes vary
MaxReplyInv == 3
\* pub/sub envelopes, publish and nowait calls made in a run
MaxOps == 3
\* queue arrivals and queue store API calls made in a run
MaxStoreOps == 5
\* peers that connect in a run in which the listeners are watched
MaxPeers == 2
MaxWaitInv == 4
MaxRouted == 2
MaxCallers == 2

\* ------------------------------------------------------------- numbers
Half == 256 * 256
Num(n) == <<n \div Half, n % Half>>
Zero == Num(0)
One == Num(1)
Succ(n) == IF n[2] + 1 = Half THEN <<n[1] + 1, 0>> ELSE <<n[1], n[2] + 1>>
Greater(a, b) == a[1] > b[1] \/ (a[1] = b[1] /\ a[2] > b[2])
Pred(n) == IF n[2] = 0 THEN <<n[1] - 1, Half - 1>> ELSE <<n[1], n[2] - 1>>

\* JsPyTextSocket.SERIAL_MAX = 0XFFFFFFFF, JsPyBinarySocket.SERIAL_MAX
SERIAL_MAX == <<Half - 1, Half - 1>>

Conns == 1..MaxConn

\* the part of the id space the bounded model visits
InWindow(n) == Greater(n, Pred(Pred(SERIAL_MAX))) \/ ~Greater(n, Num(MaxSerial))

VARIABLES
    flavor,             \* which registry class the instance is: "text" or "binary"
    _socket_serial,     \* last id handed out by _append_socket
    _socket_pool,       \* socket id |-> connection handle (ws)
    _connected,         \* number of connected clients
    _connection_limit,  \* 0 = unlimited
    conn,               \* per connection: position of its endpoint coroutine
    csid                \* per connection: self._socket_id (Zero while unset)

regvars == <<flavor, _socket_serial, _socket_pool, _connected,
             _connection_limit, conn, csid>>

VARIABLES
    _exposed_function,  \* key |-> [func, iscoroutine, running, exclusive]
    queues,             \* the queue.Queue objects made by expose: id |-> waiters
    nexposed,           \* number of expose()/clear()/decorator calls made so far
    last,               \* the most recent of them: its arguments and what it
                        \* returned or raised
    inv,                \* the _call_from_js tasks, in order of arrival
    ready               \* the reactor's FIFO of runnable tasks

fnvars == <<_exposed_function, queues, nexposed, last, inv, ready>>

VARIABLES
    _call_id,           \* JsPyFunction: last id given to a call / call_nowait
    _queue_id,          \* JsPyQueue: last id given to a push / push_nowait
    _call_memory,       \* call id |-> the future list of a pending call
    _queue_memory,      \* queue id |-> the future list of a pending push
    call,               \* the coroutines of call(...)(*args) and push(...)(data)
    sent,               \* envelopes handed to multicast so far
    replied             \* history: per caller, socket id |-> content of the first
                        \* reply that carried the caller's id while it waited

callvars == <<_call_id, _queue_id, _call_memory, _queue_memory, call, sent, replied>>

VARIABLES
    _pubsub_id,         \* JsPyPubsub: last id given to a 'pub' envelope
    _topic_manager,     \* the dict topic -> set of socket ids, as the sequence of
                        \* its items in insertion order
    _topic_callback,    \* topic |-> the server-side callback bound to it
    _func_queue,        \* JsPyBackground: the reserved calls, oldest first
    log,                \* history: the envelopes sent and the callbacks invoked
    pubs,               \* history: the publications, by publish(...)(message)
                        \* of the server (by = Zero) or by a socket's 'pub_call'
    nops                \* number of pub/sub and nowait operations made so far

pubvars == <<_pubsub_id, _topic_manager, _topic_callback, _func_queue, log, pubs, nops>>

VARIABLES
    _queue_stack,       \* JsPyQueue: queue key |-> the deque of arrived data
    _queue_callbacks,   \* JsPyQueue: the callbacks run when data arrives
    _socket_events,     \* the registered connect/disconnect listeners
    _startup_task,      \* JsPyBackground: the task running _event_loop,
                        \* "none" before startup, then "running" (between
                        \* items), "awaiting" (inside an asynchronous item) or
                        \* "cancelled"
    nran,               \* history: number of items _event_loop has taken
    ret                 \* the most recent server-side API call: its name,
                        \* argument, what it returned, and its place among
                        \* the operations of the run

srvvars == <<_queue_stack, _queue_callbacks, _socket_events, _startup_task, nran, ret>>

vars == <<regvars, fnvars, callvars, pubvars, srvvars>>

\* no API call has been made yet
NoRet == [op |-> "", arg |-> "", val |-> [name |-> "", n |-> 0], at |-> 0]
\* the value an API call returned: a name (None, True, False, the caller's
\* default), or the n-th datum that arrived in the queue store
Value(name) == [name |-> name, n |-> 0]
Datum(n) == [name |-> "datum", n |-> n]

InitSrvVars ==
    /\ _queue_stack = << >>
    /\ _queue_callbacks = {}
    /\ _socket_events = {}
    /\ _startup_task = "none"
    /\ nran = 0
    /\ ret = NoRet

\* the same after startup_handler has run
InitSrvRunning ==
    /\ _queue_stack = << >>
    /\ _queue_callbacks = {}
    /\ _socket_events = {}
    /\ _startup_task = "running"
    /\ nran = 0
    /\ ret = NoRet

InitPubVars ==
    /\ _pubsub_id = Zero
    /\ _topic_manager = << >>
    /\ _topic_callback = << >>
    /\ _func_queue = << >>
    /\ log = << >>
    /\ pubs = << >>
    /\ nops = 0

\* no expose(), clear() or decorator has been called yet
NoApi == [op |-> "", key |-> "", func |-> "", exclusive |-> FALSE, ret |-> ""]

\* ------------------------------------------------------ connection registry
PoolIds == DOMAIN _socket_pool

\* the wrap of lines 446-448 / 450-452: += 1, back to 1 above SERIAL_MAX
NextSerial(s) == IF Greater(Succ(s), SERIAL_MAX) THEN One ELSE Succ(s)

\* the while loop of _append_socket: probe until an id outside the pool
RECURSIVE Probe(_, _)
Probe(s, pool) == IF s \in pool THEN Probe(NextSerial(s), pool) ELSE s

\* a registry that takes the next counter value without probing the pool
AppendSocketIdNoProbe(serial, pool) == NextSerial(serial)

\* _append_socket: the id the new connection gets
AppendSocketId(serial, pool) == Probe(NextSerial(serial), pool)

\* a _delete_socket that leaves the pool as it is
DeleteSocketKeep(pool, id) == pool

\* _delete_socket
DeleteSocket(pool, id) == [i \in (DOMAIN pool) \ {id} |-> pool[i]]

\* set_connection_limit(limit)
SetConnectionLimit(limit) ==
    /\ _connection_limit' = (IF limit >= 0 THEN limit ELSE 0)
    /\ UNCHANGED <<flavor, _socket_serial, _socket_pool, _connected, conn, csid>>

\* on_connect / socket_handler up to "await ws.accept()"
ConnectBegin(c) ==
    /\ conn[c] = "idle"
    /\ _connected' = _connected + 1
    /\ conn' = [conn EXCEPT ![c] = "accept"]
    /\ UNCHANGED <<flavor, _socket_serial, _socket_pool, _connection_limit, csid>>

\* after accept: _append_socket, the limit check, and the first send/close
ConnectAssign(c) ==
    /\ conn[c] = "accept"
    /\ LET id == AppendSocketId(_socket_serial, PoolIds)
           over == _connection_limit > 0 /\ _connected > _connection_limit
       IN /\ InWindow(id)
          /\ _socket_serial' = id
          /\ _socket_pool' = [i \in PoolIds \cup {id} |->
                                 IF i = id THEN c ELSE _socket_pool[i]]
          /\ csid' = [csid EXCEPT ![c] = id]
          /\ conn' = [conn EXCEPT ![c] =
                         IF over
                         THEN (IF flavor = "text" THEN "reject_send" ELSE "reject_close")
                         ELSE (IF flavor = "text" THEN "greet_send" ELSE "open")]
    /\ UNCHANGED <<flavor, _connected, _connection_limit>>

\* text on_connect: the greeting send_json has completed; the endpoint
\* enters its receive loop
ConnectGreeted(c) ==
    /\ conn[c] = "greet_send"
    /\ conn' = [conn EXCEPT ![c] = "open"]
    /\ UNCHANGED <<flavor, _socket_serial, _socket_pool, _connected,
                   _connection_limit, csid>>

\* text on_connect: the rejection send_json has completed, ws.close() starts
ConnectRejectSent(c) ==
    /\ conn[c] = "reject_send"
    /\ conn' = [conn EXCEPT ![c] = "reject_close"]
    /\ UNCHANGED <<flavor, _socket_serial, _socket_pool, _connected,
                   _connection_limit, csid>>

\* ws.close() of a rejected connection has completed
ConnectRejectClosed(c) ==
    /\ conn[c] = "reject_close"
    /\ conn' = [conn EXCEPT ![c] = "closed"]
    /\ UNCHANGED <<flavor, _socket_serial, _socket_pool, _connected,
                   _connection_limit, csid>>

\* on_disconnect / the tail of socket_handler
Disconnect(c) ==
    /\ conn[c] \in {"open", "closed"}
    /\ _socket_pool' = DeleteSocket(_socket_pool, csid[c])
    /\ _connected' = _connected - 1
    /\ conn' = [conn EXCEPT ![c] = "idle"]
    /\ csid' = [csid EXCEPT ![c] = Zero]
    /\ UNCHANGED <<flavor, _socket_serial, _connection_limit>>

\* ------------------------------------------------ call / push correlation
\* JsPyFunction._CALL_ID_MAX and JsPyQueue._QUEUE_ID_MAX = 0XFFFFFFFF
_CALL_ID_MAX == <<Half - 1, Half - 1>>
_QUEUE_ID_MAX == <<Half - 1, Half - 1>>

Calls == 1..MaxCall

\* the timeout argument: None, or a number
NoTimeout == [none |-> TRUE, val |-> 0]
TimeoutArgs == {NoTimeout} \cup {[none |-> FALSE, val |-> v] : v \in {-1, 0, 5}}

\* a normalisation that lets a zero timeout through to asyncio.wait
NormalTimeoutNegative(t) == IF ~t.none /\ t.val < 0 THEN NoTimeout ELSE t

\* lines 473-474: "if (timeout is not None) and (timeout <= 0): timeout = None"
NormalTimeout(t) == IF ~t.none /\ t.val <= 0 THEN NoTimeout ELSE t

\* the target argument: None, an int, or a list/tuple/set of ints
TargetArgs ==
    {[type |-> "none", ids |-> {}]}
    \cup {[type |-> "int", ids |-> {Num(n)}] : n \in {1, 3}}
    \cup {[type |-> "list", ids |-> S] : S \in {{Num(1), Num(2)}, {Num(2), Num(3)}}}

\* lines 450-459: the targets that are connected now (their order in the
\* list only fixes the order of the anonymous futures, so a set is kept)
TargetSockets(target, pool) ==
    IF target.type = "none" THEN pool ELSE target.ids \cap pool

\* what a peer puts in a 'function_return' / 'queue_return' envelope:
\* the data, and whether the exception field is set
Contents == {[exc |-> FALSE, data |-> "a"], [exc |-> FALSE, data |-> "b"],
             [exc |-> TRUE, data |-> "a"]}

PendingFuture == [done |-> FALSE, sock |-> Zero, exc |-> FALSE, data |-> ""]
NoCall == [pc |-> "none", kind |-> "", id |-> Zero, timeout |-> NoTimeout,
           targets |-> {}, futures |-> << >>, result |-> << >>]

\* lines 445-448: "+= 1", back to 1 above the maximum
\* a counter that wraps to 0
NextCallIdZero(n, max) == IF Greater(Succ(n), max) THEN Zero ELSE Succ(n)

\* lines 445-447 (call), 336-338 (call_nowait), JsPyQueue 194-196, 104-106
NextCallId(n, max) == IF Greater(Succ(n), max) THEN One ELSE Succ(n)

Memory(kind) == IF kind = "call" THEN _call_memory ELSE _queue_memory

MemPut(mem, id, c) == [i \in DOMAIN mem \cup {id} |-> IF i = id THEN c ELSE mem[i]]
MemDel(mem, id) == [i \in (DOMAIN mem) \ {id} |-> mem[i]]

InitCallVars ==
    /\ _call_id = Zero
    /\ _queue_id = Zero
    /\ _call_memory = << >>
    /\ _queue_memory = << >>
    /\ call = [c \in Calls |-> NoCall]
    /\ sent = {}
    /\ replied = [c \in Calls |-> << >>]

\* call(key, timeout, target)(*args) / push(key, timeout, target)(data) up to
\* the await of asyncio.wait; encodable: json.dumps accepts the payload
Issue(c, kind, timeout, target, encodable) ==
    /\ call[c].pc = "none"
    /\ \A d \in Calls : d < c => call[d].pc # "none"
    /\ LET id == IF kind = "call" THEN NextCallId(_call_id, _CALL_ID_MAX)
                 ELSE NextCallId(_queue_id, _QUEUE_ID_MAX)
           targets == TargetSockets(target, PoolIds)
           rec == [NoCall EXCEPT !.kind = kind, !.id = id, !.timeout = timeout,
                                 !.targets = targets]
       IN /\ _call_id' = IF kind = "call" THEN id ELSE _call_id
          /\ _queue_id' = IF kind = "push" THEN id ELSE _queue_id
          /\ IF targets = {}
             THEN \* lines 462-463: nothing to wait for
                  /\ call' = [call EXCEPT ![c] = [rec EXCEPT !.pc = "returned"]]
                  /\ UNCHANGED <<_call_memory, _queue_memory, sent>>
             ELSE /\ _call_memory' = IF kind = "call"
                                      THEN MemPut(_call_memory, id, c)
                                      ELSE _call_memory
                  /\ _queue_memory' = IF kind = "push"
                                       THEN MemPut(_queue_memory, id, c)
                                       ELSE _queue_memory
                  /\ LET futures == [n \in 1..Cardinality(targets) |-> PendingFuture]
                     IN IF encodable
                        THEN /\ call' = [call EXCEPT ![c] =
                                    [rec EXCEPT !.pc = "waiting", !.futures = futures]]
                             /\ sent' = sent \cup
                                    {[to |-> s, id |-> id,
                                      protocol |-> IF kind = "call"
                                                   THEN "function_call"
                                                   ELSE "queue_call"] : s \in targets}
                        ELSE \* multicast: json.dumps raises TypeError
                             /\ call' = [call EXCEPT ![c] =
                                    [rec EXCEPT !.pc = "raised", !.futures = futures]]
                             /\ UNCHANGED sent
    /\ UNCHANGED replied

\* index of the first future that is not done, 0 if all are
FirstPending(futures) ==
    IF \E n \in DOMAIN futures : ~futures[n].done
    THEN CHOOSE n \in DOMAIN futures :
            ~futures[n].done /\ \A m \in 1..(n - 1) : futures[m].done
    ELSE 0

\* set_result / set_exception on the slot a reply of socket s lands in
Settle(kind, s, content) ==
    [done |-> TRUE, sock |-> s,
     exc |-> (kind = "call" /\ content.exc),
     data |-> IF kind = "call" THEN content.data ELSE ""]

\* _return_from_js / _queue_return for an envelope of connection cn
ReceiveReturn(cn, kind, id, content) ==
    /\ conn[cn] = "open"
    /\ LET s == csid[cn]
           mem == Memory(kind)
       IN IF id \in DOMAIN mem
          THEN LET c == mem[id]
                   n == FirstPending(call[c].futures)
                   \* _queue_return hands the exception string to
                   \* set_exception, which raises TypeError; on_receive
                   \* swallows it and the slot stays pending
                   settles == n # 0 /\ ~(kind = "push" /\ content.exc)
               IN /\ call' = IF settles
                              THEN [call EXCEPT ![c].futures[n] =
                                       Settle(kind, s, content)]
                              ELSE call
                  /\ replied' = IF call[c].pc = "waiting" /\ s \notin DOMAIN replied[c]
                                 THEN [replied EXCEPT ![c] =
                                         [x \in DOMAIN replied[c] \cup {s} |->
                                            IF x = s THEN content ELSE replied[c][x]]]
                                 ELSE replied
          ELSE UNCHANGED <<call, replied>>
    /\ UNCHANGED <<_call_id, _queue_id, _call_memory, _queue_memory, sent>>

DoneSocks(futures) == {futures[n].sock : n \in {m \in DOMAIN futures : futures[m].done}}

\* lines 476-482: the map built from the done futures; when one socket
\* settled several futures the set iteration order decides which one stays
CallResults(futures) ==
    {r \in [DoneSocks(futures) -> DOMAIN futures] :
        \A s \in DoneSocks(futures) : futures[r[s]].done /\ futures[r[s]].sock = s}

ResultMap(futures, r) ==
    [s \in DOMAIN r |-> [exc |-> futures[r[s]].exc, data |-> futures[r[s]].data,
                         socket_id |-> futures[r[s]].sock]]

\* push: the list of ft.result(), kept as socket id |-> number of entries
AckList(futures) ==
    [s \in DoneSocks(futures) |->
        Cardinality({n \in DOMAIN futures : futures[n].done /\ futures[n].sock = s})]

\* asyncio.wait has returned for caller c: lines 476-484 / 226-233
Collect(c) ==
    /\ \E r \in CallResults(call[c].futures) :
          call' = [call EXCEPT ![c].pc = IF call[c].id \in DOMAIN Memory(call[c].kind)
                                         THEN "returned" ELSE "raised",
                               ![c].result = IF call[c].kind = "call"
                                             THEN ResultMap(call[c].futures, r)
                                             ELSE AckList(call[c].futures)]
    /\ _call_memory' = IF call[c].kind = "call"
                        THEN MemDel(_call_memory, call[c].id) ELSE _call_memory
    /\ _queue_memory' = IF call[c].kind = "push"
                         THEN MemDel(_queue_memory, call[c].id) ELSE _queue_memory
    /\ UNCHANGED <<_call_id, _queue_id, sent, replied>>

\* every future is done: asyncio.wait returns
ReturnAllDone(c) ==
    /\ call[c].pc = "waiting"
    /\ \A n \in DOMAIN call[c].futures : call[c].futures[n].done
    /\ Collect(c)

\* the timeout given to asyncio.wait has elapsed
ReturnTimeout(c) ==
    /\ call[c].pc = "waiting"
    /\ ~NormalTimeout(call[c].timeout).none
    /\ Collect(c)

InitCall ==
    /\ flavor = "text"
    /\ _connection_limit = 0
    /\ _socket_serial = Num(2)
    /\ _socket_pool = (One :> 1 @@ Num(2) :> 2)
    /\ _connected = 2
    /\ conn = [c \in Conns |-> IF c \in {1, 2} THEN "open" ELSE "idle"]
    /\ csid = [c \in Conns |-> IF c \in {1, 2} THEN Num(c) ELSE Zero]
    /\ _exposed_function = << >>
    /\ queues = << >>
    /\ nexposed = 0
    /\ last = NoApi
    /\ inv = [i \in 1..MaxInv |-> [pc |-> "none", key |-> "", func |-> "",
                                   iscoroutine |-> FALSE, exclusive |-> 0,
                                   protocol |-> "", outcome |-> "", reply |-> "none"]]
    /\ ready = << >>
    /\ InitCallVars
    /\ InitPubVars
    /\ InitSrvVars

\* the ids a peer may put in a reply: those issued, and one never issued
ReplyIds == {Num(n) : n \in 1..(MaxCall + 1)}

NextCall ==
    \/ \E c \in Calls, kind \in {"call", "push"}, t \in TimeoutArgs,
          target \in TargetArgs, encodable \in BOOLEAN :
          Issue(c, kind, t, target, encodable) /\ UNCHANGED <<regvars, fnvars, pubvars, srvvars>>
    \/ \E cn \in Conns, kind \in {"call", "push"}, id \in ReplyIds,
          content \in Contents :
          ReceiveReturn(cn, kind, id, content) /\ UNCHANGED <<regvars, fnvars, pubvars, srvvars>>
    \/ \E c \in Calls : ReturnAllDone(c) /\ UNCHANGED <<regvars, fnvars, pubvars, srvvars>>
    \/ \E c \in Calls : ReturnTimeout(c) /\ UNCHANGED <<regvars, fnvars, pubvars, srvvars>>
    \/ \E cn \in Conns : Disconnect(cn) /\ UNCHANGED <<fnvars, callvars, pubvars, srvvars>>

SpecCall == InitCall /\ [][NextCall]_vars

\* asyncio.wait resumes its caller when the last future is done or when the
\* timer it armed fires; the reactor runs every callback it has scheduled
FairSpecCall ==
    SpecCall /\ \A c \in Calls : WF_vars(ReturnAllDone(c) /\ UNCHANGED <<regvars, fnvars, pubvars, srvvars>>)
                               /\ WF_vars(ReturnTimeout(c) /\ UNCHANGED <<regvars, fnvars, pubvars, srvvars>>)

\* ------------------------------------------------- exposed-function engine
Keys == {"py_key"}
\* an exposed callable: a plain function, or a coroutine function that may
\* suspend (asyncio.sleep, I/O) before it returns or raises
Funcs == {"plain", "coroutine"}
Invs == 1..MaxInv
None == 0

IsCoroutineFunction(func) == func = "coroutine"

\* invocation i's task has not been created / is suspended outside the FIFO
\* protocol is the tag of the inbound envelope, outcome what func did
\* ("value": it returned, "error": it raised), reply the function_return the
\* task has sent ("none": nothing sent)
NoInv == [pc |-> "none", key |-> "", func |-> "", iscoroutine |-> FALSE,
          exclusive |-> None, protocol |-> "", outcome |-> "", reply |-> "none"]

Protocols == {"function_call", "function"}
Outcomes == {"value", "error"}

\* lines 554-561: only a 'function_call' is answered
Reply(protocol, content) == IF protocol = "function_call" THEN content ELSE "none"

\* the positions between "Start of function call" and "End of function call"
Running == {"sleep1", "in_func", "func_done", "sleep2"}

\* is_running(key)
is_running(key) ==
    IF key \in DOMAIN _exposed_function THEN _exposed_function[key].running ELSE FALSE

\* has(key)
has(key) == key \in DOMAIN _exposed_function

\* an expose that refuses every registered key
ExposeOkAbsent(key) == key \notin DOMAIN _exposed_function

\* expose(key, func, exclusive): TRUE iff it registers the record
ExposeOk(key) == ~(key \in DOMAIN _exposed_function /\ _exposed_function[key].running)

\* the record expose and the decorators store: lines 95-98, 137-140, 182-185
NewRecord(func, exclusive) ==
    [func |-> func,
     iscoroutine |-> IsCoroutineFunction(func),
     running |-> FALSE,
     exclusive |-> IF exclusive THEN Len(queues) + 1 ELSE None]

Register(key, func, exclusive) ==
    /\ _exposed_function' =
          [k \in DOMAIN _exposed_function \cup {key} |->
             IF k = key THEN NewRecord(func, exclusive) ELSE _exposed_function[k]]
    /\ queues' = IF exclusive THEN Append(queues, << >>) ELSE queues

Expose(key, func, exclusive) ==
    /\ nexposed < MaxExpose
    /\ nexposed' = nexposed + 1
    /\ last' = [op |-> "expose", key |-> key, func |-> func, exclusive |-> exclusive,
                ret |-> IF ExposeOk(key) THEN "True" ELSE "False"]
    /\ IF ExposeOk(key)
       THEN Register(key, func, exclusive)
       ELSE UNCHANGED <<_exposed_function, queues>>
    /\ UNCHANGED <<inv, ready>>

\* a decorator that overwrites an idle record as expose does
DecoratorOkIdle(key) ==
    ~(key \in DOMAIN _exposed_function /\ _exposed_function[key].running)

\* callable(func) and exclusive_callable(func), key being func.__name__:
\* lines 136-144 and 181-189
DecoratorOk(key) == key \notin DOMAIN _exposed_function

Decorate(key, func, exclusive) ==
    /\ nexposed < MaxExpose
    /\ nexposed' = nexposed + 1
    /\ last' = [op |-> "decorator", key |-> key, func |-> func,
                exclusive |-> exclusive,
                ret |-> IF DecoratorOk(key) THEN "func" ELSE "KeyError"]
    /\ IF DecoratorOk(key)
       THEN Register(key, func, exclusive)
       ELSE UNCHANGED <<_exposed_function, queues>>
    /\ UNCHANGED <<inv, ready>>

\* clear(key): TRUE iff it deletes the record
ClearOk(key) == key \in DOMAIN _exposed_function /\ ~_exposed_function[key].running

Clear(key) ==
    /\ nexposed < MaxExpose
    /\ nexposed' = nexposed + 1
    /\ last' = [op |-> "clear", key |-> key, func |-> "", exclusive |-> FALSE,
                ret |-> IF ClearOk(key) THEN "True" ELSE "False"]
    /\ IF ClearOk(key)
       THEN _exposed_function' =
                [k \in (DOMAIN _exposed_function) \ {key} |-> _exposed_function[k]]
       ELSE UNCHANGED _exposed_function
    /\ UNCHANGED <<queues, inv, ready>>

\* the task of an invocation has ended: its locals are gone, what remains is
\* the envelope it served and the reply it sent
Finished(rec, pc, reply) ==
    [NoInv EXCEPT !.pc = pc, !.key = rec.key, !.protocol = rec.protocol,
                  !.reply = reply]

\* a reactor that runs the newest task first
CallSoonFirst(fifo, i) == <<i>> \o fifo

\* asyncio.create_task: the new task goes to the end of the reactor's FIFO
CallSoon(fifo, i) == Append(fifo, i)

\* on_receive of a 'function'/'function_call' envelope: the handler is a
\* coroutine function, so the router only creates its task
ReceiveCall(key, protocol) ==
    /\ \E c \in Conns : conn[c] = "open"
    /\ \E i \in Invs :
          /\ inv[i].pc = "none"
          /\ \A j \in Invs : j < i => inv[j].pc # "none"
          /\ inv' = [inv EXCEPT ![i] = [NoInv EXCEPT !.pc = "created", !.key = key,
                                                     !.protocol = protocol]]
          /\ ready' = CallSoon(ready, i)
    /\ UNCHANGED <<_exposed_function, queues, nexposed, last>>

\* the reactor runs the task at the head of its FIFO up to its next await
IsNext(i) == ready # << >> /\ Head(ready) = i

SetRunning(table, key, b) == [table EXCEPT ![key].running = b]

\* lines 533-535 for task i: flag on, then yield to the reactor
StartInv(i, rec) ==
    IF rec.key \in DOMAIN _exposed_function
    THEN /\ _exposed_function' = SetRunning(_exposed_function, rec.key, TRUE)
         /\ inv' = [inv EXCEPT ![i] = [rec EXCEPT !.pc = "sleep1"]]
         /\ ready' = Append(Tail(ready), i)
    ELSE \* KeyError: the task dies
         /\ inv' = [inv EXCEPT ![i] = Finished(rec, "failed", "none")]
         /\ ready' = Tail(ready)
         /\ UNCHANGED _exposed_function

\* first run of task i: lines 512-535
StepCreated(i) ==
    /\ IsNext(i)
    /\ inv[i].pc = "created"
    /\ UNCHANGED <<nexposed, last>>
    /\ IF ~has(inv[i].key)
       THEN \* lines 517-519: error reply, nothing is invoked
            /\ inv' = [inv EXCEPT ![i] =
                  Finished(inv[i], "done", Reply(inv[i].protocol, "unregistered"))]
            /\ ready' = Tail(ready)
            /\ UNCHANGED <<_exposed_function, queues>>
       ELSE LET r == _exposed_function[inv[i].key]
                rec == [inv[i] EXCEPT !.func = r.func,
                                      !.iscoroutine = r.iscoroutine,
                                      !.exclusive = r.exclusive]
            IN IF r.exclusive # None /\ r.running
               THEN \* lines 525-531: park on the wait list
                    /\ queues' = [queues EXCEPT ![r.exclusive] = Append(@, i)]
                    /\ inv' = [inv EXCEPT ![i] = [rec EXCEPT !.pc = "parked"]]
                    /\ ready' = Tail(ready)
                    /\ UNCHANGED _exposed_function
               ELSE /\ StartInv(i, rec)
                    /\ UNCHANGED queues

\* task i resumes from "await this_future": lines 533-535
StepWoken(i) ==
    /\ IsNext(i)
    /\ inv[i].pc = "woken"
    /\ UNCHANGED <<nexposed, last>>
    /\ StartInv(i, inv[i])
    /\ UNCHANGED queues

\* lines 536-548: the call of func; suspends says whether a coroutine
\* function suspends before it finishes, outcome whether a function that
\* finishes at once returns or raises (lines 539-541, 545-547)
StepCallFunc(i, suspends, outcome) ==
    /\ IsNext(i)
    /\ inv[i].pc = "sleep1"
    /\ UNCHANGED <<nexposed, last>>
    /\ suspends => inv[i].iscoroutine
    /\ IF suspends
       THEN /\ inv' = [inv EXCEPT ![i].pc = "in_func"]
            /\ ready' = Tail(ready)
       ELSE /\ inv' = [inv EXCEPT ![i].pc = "sleep2", ![i].outcome = outcome]
            /\ ready' = Append(Tail(ready), i)
    /\ UNCHANGED <<_exposed_function, queues>>

\* what func was waiting for has happened: its task is runnable again
FuncWakes(i) ==
    /\ inv[i].pc = "in_func"
    /\ inv' = [inv EXCEPT ![i].pc = "func_done"]
    /\ ready' = Append(ready, i)
    /\ UNCHANGED <<_exposed_function, queues, nexposed, last>>

\* func returns or raises after its suspension: line 548
StepFuncDone(i, outcome) ==
    /\ IsNext(i)
    /\ inv[i].pc = "func_done"
    /\ UNCHANGED <<nexposed, last>>
    /\ inv' = [inv EXCEPT ![i].pc = "sleep2", ![i].outcome = outcome]
    /\ ready' = Append(Tail(ready), i)
    /\ UNCHANGED <<_exposed_function, queues>>

\* lines 550-561: flag off, hand over to the next waiter, reply
StepEnd(i) ==
    /\ IsNext(i)
    /\ inv[i].pc = "sleep2"
    /\ UNCHANGED <<nexposed, last>>
    /\ IF ~has(inv[i].key)
       THEN \* KeyError at line 550: the task dies
            /\ inv' = [inv EXCEPT ![i] = Finished(inv[i], "failed", "none")]
            /\ ready' = Tail(ready)
            /\ UNCHANGED <<_exposed_function, queues>>
       ELSE LET q == inv[i].exclusive
            IN IF q # None /\ queues[q] # << >>
               THEN LET w == Head(queues[q])
                    IN /\ queues' = [queues EXCEPT ![q] = Tail(@)]
                       /\ inv' = [inv EXCEPT
                                    ![i] = Finished(inv[i], "done",
                                              Reply(inv[i].protocol, inv[i].outcome)),
                                    ![w].pc = "woken"]
                       /\ ready' = Append(Tail(ready), w)
                       /\ _exposed_function' =
                              SetRunning(_exposed_function, inv[i].key, TRUE)
               ELSE /\ inv' = [inv EXCEPT
                                 ![i] = Finished(inv[i], "done",
                                           Reply(inv[i].protocol, inv[i].outcome))]
                    /\ ready' = Tail(ready)
                    /\ _exposed_function' =
                           SetRunning(_exposed_function, inv[i].key, FALSE)
                    /\ UNCHANGED queues

InitFunction ==
    /\ flavor = "text"
    /\ _connection_limit = 0
    /\ _socket_serial = One
    /\ _socket_pool = (One :> 1)
    /\ _connected = 1
    /\ conn = [c \in Conns |-> IF c = 1 THEN "open" ELSE "idle"]
    /\ csid = [c \in Conns |-> IF c = 1 THEN One ELSE Zero]
    /\ _exposed_function = << >>
    /\ queues = << >>
    /\ nexposed = 0
    /\ last = NoApi
    /\ inv = [i \in Invs |-> NoInv]
    /\ ready = << >>
    /\ InitCallVars
    /\ InitPubVars
    /\ InitSrvVars

\* the steps of the engine when up to n envelopes with a tag of P arrive and
\* the functions end as O says
EngineNext(n, P, O) ==
    \/ \E k \in Keys, f \in Funcs, x \in BOOLEAN :
          Expose(k, f, x) /\ UNCHANGED <<regvars, callvars, pubvars, srvvars>>
    \/ \E k \in Keys, f \in Funcs, x \in BOOLEAN :
          Decorate(k, f, x) /\ UNCHANGED <<regvars, callvars, pubvars, srvvars>>
    \/ \E k \in Keys : Clear(k) /\ UNCHANGED <<regvars, callvars, pubvars, srvvars>>
    \/ \E k \in Keys, p \in P :
          inv[n].pc = "none" /\ ReceiveCall(k, p) /\ UNCHANGED <<regvars, callvars, pubvars, srvvars>>
    \/ \E i \in Invs : StepCreated(i) /\ UNCHANGED <<regvars, callvars, pubvars, srvvars>>
    \/ \E i \in Invs : StepWoken(i) /\ UNCHANGED <<regvars, callvars, pubvars, srvvars>>
    \/ \E i \in Invs, suspends \in BOOLEAN, o \in O :
          StepCallFunc(i, suspends, o) /\ UNCHANGED <<regvars, callvars, pubvars, srvvars>>
    \/ \E i \in Invs : FuncWakes(i) /\ UNCHANGED <<regvars, callvars, pubvars, srvvars>>
    \/ \E i \in Invs, o \in O :
          StepFuncDone(i, o) /\ UNCHANGED <<regvars, callvars, pubvars, srvvars>>
    \/ \E i \in Invs : StepEnd(i) /\ UNCHANGED <<regvars, callvars, pubvars, srvvars>>

\* MaxInv 'function_call' envelopes whose functions return
NextFunction == EngineNext(MaxInv, {"function_call"}, {"value"})

SpecFunction == InitFunction /\ [][NextFunction]_vars

\* MaxReplyInv envelopes of either tag whose functions return or raise
NextReply == EngineNext(MaxReplyInv, Protocols, Outcomes)

SpecReply == InitFunction /\ [][NextReply]_vars

\* ------------------------------------------------------------ registry spec
Limits == 0..1

\* a registry that is fresh, or that has handed out ids up to SERIAL_MAX - 1
\* while connection 1 may still hold the id 1 it got on the first lap
InitRegistry ==
    /\ flavor \in {"text", "binary"}
    /\ _connection_limit = 0
    /\ \E lap \in {"fresh", "wrapping", "wrapping_held"} :
          /\ _socket_serial = (IF lap = "fresh" THEN Zero ELSE Pred(SERIAL_MAX))
          /\ _socket_pool = (IF lap = "wrapping_held" THEN (One :> 1) ELSE << >>)
          /\ _connected = (IF lap = "wrapping_held" THEN 1 ELSE 0)
          /\ conn = [c \in Conns |->
                        IF lap = "wrapping_held" /\ c = 1 THEN "open" ELSE "idle"]
          /\ csid = [c \in Conns |->
                        IF lap = "wrapping_held" /\ c = 1 THEN One ELSE Zero]
    /\ _exposed_function = << >>
    /\ queues = << >>
    /\ nexposed = 0
    /\ last = NoApi
    /\ inv = [i \in Invs |-> NoInv]
    /\ ready = << >>
    /\ InitCallVars
    /\ InitPubVars
    /\ InitSrvVars

NextRegistry ==
    \/ \E l \in Limits : SetConnectionLimit(l) /\ UNCHANGED <<fnvars, callvars, pubvars, srvvars>>
    \/ \E c \in Conns : ConnectBegin(c) /\ UNCHANGED <<fnvars, callvars, pubvars, srvvars>>
    \/ \E c \in Conns : ConnectAssign(c) /\ UNCHANGED <<fnvars, callvars, pubvars, srvvars>>
    \/ \E c \in Conns : ConnectGreeted(c) /\ UNCHANGED <<fnvars, callvars, pubvars, srvvars>>
    \/ \E c \in Conns : ConnectRejectSent(c) /\ UNCHANGED <<fnvars, callvars, pubvars, srvvars>>
    \/ \E c \in Conns : ConnectRejectClosed(c) /\ UNCHANGED <<fnvars, callvars, pubvars, srvvars>>
    \/ \E c \in Conns : Disconnect(c) /\ UNCHANGED <<fnvars, callvars, pubvars, srvvars>>

SpecRegistry == InitRegistry /\ [][NextRegistry]_vars

\* ------------------------------------------- pub/sub broker and dispatcher
_PUBSUB_ID_MAX == <<Half - 1, Half - 1>>

Topics == {"t1", "t2"}
\* a 'key' that is no dict key (a JSON array): "in" and indexing raise TypeError
Unhashable == "[]"
TopicArgs == Topics \cup {Unhashable}
Callbacks == {"cb1", "cb2"}
\* a message json.dumps accepts, and one it refuses
Unencodable == "object()"
Messages == {"m", Unencodable}
\* the 'exception' field of a 'pub_call': true, false or null
Null == "null"
SuppressArgs == {"true", "false", Null}

HasTopic(tm, t) == \E i \in DOMAIN tm : tm[i].key = t
TopicIndex(tm, t) == CHOOSE i \in DOMAIN tm : tm[i].key = t
Subscribers(tm, t) == IF HasTopic(tm, t) THEN tm[TopicIndex(tm, t)].subs ELSE {}
Without(seq, i) == SubSeq(seq, 1, i - 1) \o SubSeq(seq, i + 1, Len(seq))

\* a sub_call that replaces the set of the topic by its sender alone
AddSubscriberAlone(tm, t, s) ==
    IF HasTopic(tm, t)
    THEN [tm EXCEPT ![TopicIndex(tm, t)].subs = {s}]
    ELSE Append(tm, [key |-> t, subs |-> {s}])

\* _sub_from_js lines 188-191
AddSubscriber(tm, t, s) ==
    IF HasTopic(tm, t)
    THEN [tm EXCEPT ![TopicIndex(tm, t)].subs = @ \cup {s}]
    ELSE Append(tm, [key |-> t, subs |-> {s}])

\* a discard that keeps the emptied set in the table
DiscardSubscriberKeep(tm, t, s) ==
    IF HasTopic(tm, t)
    THEN [tm EXCEPT ![TopicIndex(tm, t)].subs = @ \ {s}]
    ELSE tm

\* _unsub_from_js lines 203-206
DiscardSubscriber(tm, t, s) ==
    IF HasTopic(tm, t)
    THEN LET i == TopicIndex(tm, t)
             rest == tm[i].subs \ {s}
         IN IF rest = {} THEN Without(tm, i) ELSE [tm EXCEPT ![i].subs = rest]
    ELSE tm

\* _socket_event lines 254-257: the for loop walks the dict in insertion
\* order; the first "del" changes the dict's size, so fetching the next key
\* raises RuntimeError (caught by on_disconnect) and the loop ends there
RECURSIVE SocketEventFrom(_, _, _)
SocketEventFrom(tm, s, i) ==
    IF i > Len(tm)
    THEN tm
    ELSE LET rest == tm[i].subs \ {s}
         IN IF rest = {}
            THEN Without(tm, i)
            ELSE SocketEventFrom([tm EXCEPT ![i].subs = rest], s, i + 1)

SocketEvent(tm, s) == SocketEventFrom(tm, s, 1)

\* an item of _func_queue: (func, param). publish reserves multicast with the
\* set object of the topic itself (ref "set"); a set deleted from the table
\* is empty and nothing adds to it any more (ref "orphan"); the nowait calls
\* reserve multicast with their target argument (ref "arg")
NoTarget == [type |-> "none", ids |-> {}]
CallbackItem(cb, t, id, msg) ==
    [fn |-> "callback", cb |-> cb, protocol |-> "", key |-> t, id |-> id,
     data |-> msg, ref |-> "", target |-> NoTarget, ws |-> 0]
MulticastItem(protocol, t, id, msg, ref, target) ==
    [fn |-> "multicast", cb |-> "", protocol |-> protocol, key |-> t, id |-> id,
     data |-> msg, ref |-> ref, target |-> target, ws |-> 0]
\* close_socket reserves the close method of the connection handle
CloseItem(c) ==
    [fn |-> "close", cb |-> "", protocol |-> "", key |-> "", id |-> Zero,
     data |-> "", ref |-> "", target |-> NoTarget, ws |-> c]

DeletedTopics(tm, tm2) == {t \in Topics : HasTopic(tm, t) /\ ~HasTopic(tm2, t)}
Orphan(q, D) ==
    [n \in DOMAIN q |->
        IF q[n].ref = "set" /\ q[n].key \in D THEN [q[n] EXCEPT !.ref = "orphan"]
        ELSE q[n]]

\* the history entries: an envelope handed to the sockets "to", a callback run
SendEvent(to, protocol, t, id, data, exc) ==
    [ev |-> "send", to |-> to, protocol |-> protocol, key |-> t, id |-> id,
     data |-> data, exc |-> exc, cb |-> ""]
CallbackEvent(cb, t, id, msg) ==
    [ev |-> "callback", to |-> {}, protocol |-> "", key |-> t, id |-> id,
     data |-> msg, exc |-> Null, cb |-> cb]

\* what is known of a publication when it is made: its id, the subscribers
\* and the callback of its topic at that moment
Publication(by, id, t, suppress, msg) ==
    [by |-> by, id |-> id, key |-> t, suppress |-> suppress, data |-> msg,
     subs |-> Subscribers(_topic_manager, t),
     cb |-> IF t \in DOMAIN _topic_callback THEN _topic_callback[t] ELSE ""]

NextPubsubId(n) == IF Greater(Succ(n), _PUBSUB_ID_MAX) THEN One ELSE Succ(n)

\* the id a client puts in its next envelope
EnvelopeId == Num(nops + 1)
TopicError == "The topic name is incorrect @python"

\* _sub_from_js, for a 'sub_call' of connection cn with key t
SubFromJs(cn, t) ==
    /\ nops < MaxOps /\ nops' = nops + 1
    /\ conn[cn] = "open"
    /\ IF t = Unhashable
       THEN /\ UNCHANGED _topic_manager
            /\ log' = Append(log, SendEvent({csid[cn]}, "sub_return", t, EnvelopeId,
                                            Null, TopicError))
       ELSE /\ _topic_manager' = AddSubscriber(_topic_manager, t, csid[cn])
            /\ log' = Append(log, SendEvent({csid[cn]}, "sub_return", t, EnvelopeId,
                                            Null, Null))
    /\ UNCHANGED <<_pubsub_id, _topic_callback, _func_queue, pubs>>

\* _unsub_from_js, for an 'unsub_call' of connection cn with key t
UnsubFromJs(cn, t) ==
    /\ nops < MaxOps /\ nops' = nops + 1
    /\ conn[cn] = "open"
    /\ IF t = Unhashable
       THEN /\ UNCHANGED <<_topic_manager, _func_queue>>
            /\ log' = Append(log, SendEvent({csid[cn]}, "unsub_return", t, EnvelopeId,
                                            Null, TopicError))
       ELSE /\ _topic_manager' = DiscardSubscriber(_topic_manager, t, csid[cn])
            /\ _func_queue' =
                  Orphan(_func_queue, DeletedTopics(_topic_manager, _topic_manager'))
            /\ log' = Append(log, SendEvent({csid[cn]}, "unsub_return", t, EnvelopeId,
                                            Null, Null))
    /\ UNCHANGED <<_pubsub_id, _topic_callback, pubs>>

\* a callback that raises when it is called
CallbackRaises(cb) == cb = "cb2"

\* a handler that its callback's exception ends
GoesOnUnlessRaised(raised) == ~raised

\* lines 223-230: the try block around the call of the local callback;
\* whether _pub_from_js goes on after it
GoesOn(raised) == TRUE

\* _pub_from_js, for a 'pub_call' of connection cn: lines 214-243
PubFromJs(cn, t, suppress, msg) ==
    /\ nops < MaxOps /\ nops' = nops + 1
    /\ conn[cn] = "open"
    /\ LET id == NextPubsubId(_pubsub_id)
           ack == <<SendEvent({csid[cn]}, "pub_return", t, EnvelopeId, Null, Null)>>
           local == IF t \in DOMAIN _topic_callback
                    THEN <<CallbackEvent(_topic_callback[t], t, id, msg)>>
                    ELSE << >>
           subs == Subscribers(_topic_manager, t)
           to == IF suppress = "false" THEN subs ELSE subs \ {csid[cn]}
           raised == t \in DOMAIN _topic_callback /\ CallbackRaises(_topic_callback[t])
           fan == IF GoesOn(raised) /\ HasTopic(_topic_manager, t)
                  THEN <<SendEvent(to \cap PoolIds, "pub", t, id, msg, Null)>>
                  ELSE << >>
       IN /\ _pubsub_id' = id
          /\ log' = log \o ack \o local \o fan
          /\ pubs' = Append(pubs, Publication(csid[cn], id, t, suppress, msg))
    /\ UNCHANGED <<_topic_manager, _topic_callback, _func_queue>>

\* subscribe(topic, func) and unsubscribe(topic) of the server side
Subscribe(t, cb) ==
    /\ nops < MaxOps /\ nops' = nops + 1
    /\ _topic_callback' = [k \in DOMAIN _topic_callback \cup {t} |->
                              IF k = t THEN cb ELSE _topic_callback[k]]
    /\ UNCHANGED <<_pubsub_id, _topic_manager, _func_queue, log, pubs>>

Unsubscribe(t) ==
    /\ nops < MaxOps /\ nops' = nops + 1
    /\ _topic_callback' = [k \in (DOMAIN _topic_callback) \ {t} |-> _topic_callback[k]]
    /\ UNCHANGED <<_pubsub_id, _topic_manager, _func_queue, log, pubs>>

\* publish(topic, suppress)(message): lines 154-167
Publish(t, suppress, msg) ==
    /\ nops < MaxOps /\ nops' = nops + 1
    /\ LET id == NextPubsubId(_pubsub_id)
           bound == ~suppress /\ t \in DOMAIN _topic_callback
           local == IF bound
                    THEN <<CallbackItem(_topic_callback[t], t, id, msg)>>
                    ELSE << >>
           fan == IF HasTopic(_topic_manager, t)
                  THEN <<MulticastItem("pub", t, id, msg, "set", NoTarget)>>
                  ELSE << >>
       IN /\ _pubsub_id' = id
          /\ _func_queue' = _func_queue \o local \o fan
          /\ pubs' = Append(pubs, Publication(Zero, id, t,
                                               IF suppress THEN "true" ELSE "false",
                                               msg))
    /\ UNCHANGED <<_topic_manager, _topic_callback, log>>

\* JsPyTextSocket.multicast(data, socket) run by the dispatcher: the sockets
\* it hands the text to
MulticastTo(item) ==
    IF item.ref = "set" THEN Subscribers(_topic_manager, item.key) \cap PoolIds
    ELSE IF item.ref = "orphan" THEN {}
    ELSE TargetSockets(item.target, PoolIds)

\* a loop that goes on taking items while the item it awaits is unfinished
LoopTakesBusy == _startup_task \in {"running", "awaiting"} /\ _func_queue # << >>

\* lines 69-71: the loop is at the top of its body and the queue is not empty
LoopTakes == _startup_task = "running" /\ _func_queue # << >>

\* one turn of _event_loop: lines 70-81
Dispatch ==
    /\ LoopTakes
    /\ Head(_func_queue).fn # "close"
    /\ _func_queue' = Tail(_func_queue)
    /\ nran' = nran + 1
    /\ UNCHANGED <<_queue_stack, _queue_callbacks, _socket_events, _startup_task, ret>>
    /\ LET item == Head(_func_queue)
       IN log' =
            IF item.fn = "callback"
            THEN Append(log, CallbackEvent(item.cb, item.key, item.id, item.data))
            ELSE IF item.data = Unencodable
            THEN log   \* json.dumps raises TypeError, the loop discards it
            ELSE Append(log, SendEvent(MulticastTo(item), item.protocol, item.key,
                                       item.id, item.data, Null))
    /\ UNCHANGED <<_pubsub_id, _topic_manager, _topic_callback, pubs, nops>>

\* on_disconnect with the broker's listener: lines 535-544, then 253-257
DisconnectEvent(c) ==
    /\ Disconnect(c)
    /\ _topic_manager' = SocketEvent(_topic_manager, csid[c])
    /\ _func_queue' = Orphan(_func_queue, DeletedTopics(_topic_manager, _topic_manager'))
    /\ UNCHANGED <<_pubsub_id, _topic_callback, log, pubs, nops>>

\* call_nowait(key, target)(*args) and push_nowait(key, target)(data)
CallNowait(target, msg) ==
    /\ nops < MaxOps /\ nops' = nops + 1
    /\ _call_id' = NextCallId(_call_id, _CALL_ID_MAX)
    /\ _func_queue' = Append(_func_queue,
                             MulticastItem("function", "js_key", _call_id', msg,
                                           "arg", target))
    /\ UNCHANGED <<_queue_id, _call_memory, _queue_memory, call, sent, replied>>
    /\ UNCHANGED <<_pubsub_id, _topic_manager, _topic_callback, log, pubs>>

PushNowait(target, msg) ==
    /\ nops < MaxOps /\ nops' = nops + 1
    /\ _queue_id' = NextCallId(_queue_id, _QUEUE_ID_MAX)
    /\ _func_queue' = Append(_func_queue,
                             MulticastItem("queue", "js_key", _queue_id', msg,
                                           "arg", target))
    /\ UNCHANGED <<_call_id, _call_memory, _queue_memory, call, sent, replied>>
    /\ UNCHANGED <<_pubsub_id, _topic_manager, _topic_callback, log, pubs>>

\* two clients are connected, the dispatcher runs, nothing is subscribed
InitPubsub ==
    /\ flavor = "text"
    /\ _connection_limit = 0
    /\ _socket_serial = Num(2)
    /\ _socket_pool = (One :> 1 @@ Num(2) :> 2)
    /\ _connected = 2
    /\ conn = [c \in Conns |-> IF c \in {1, 2} THEN "open" ELSE "idle"]
    /\ csid = [c \in Conns |-> IF c \in {1, 2} THEN Num(c) ELSE Zero]
    /\ _exposed_function = << >>
    /\ queues = << >>
    /\ nexposed = 0
    /\ last = NoApi
    /\ inv = [i \in Invs |-> NoInv]
    /\ ready = << >>
    /\ InitCallVars
    /\ InitPubVars
    /\ InitSrvRunning

NextPubsub ==
    \/ \E cn \in Conns, t \in TopicArgs :
          SubFromJs(cn, t) /\ UNCHANGED <<regvars, fnvars, callvars, srvvars>>
    \/ \E cn \in Conns, t \in TopicArgs :
          UnsubFromJs(cn, t) /\ UNCHANGED <<regvars, fnvars, callvars, srvvars>>
    \/ \E cn \in Conns, t \in Topics, x \in SuppressArgs :
          PubFromJs(cn, t, x, "m") /\ UNCHANGED <<regvars, fnvars, callvars, srvvars>>
    \/ \E t \in Topics, cb \in Callbacks :
          Subscribe(t, cb) /\ UNCHANGED <<regvars, fnvars, callvars, srvvars>>
    \/ \E t \in Topics : Unsubscribe(t) /\ UNCHANGED <<regvars, fnvars, callvars, srvvars>>
    \/ \E t \in Topics, x \in BOOLEAN, msg \in Messages :
          Publish(t, x, msg) /\ UNCHANGED <<regvars, fnvars, callvars, srvvars>>
    \/ Dispatch /\ UNCHANGED <<regvars, fnvars, callvars>>
    \/ \E c \in Conns : DisconnectEvent(c) /\ UNCHANGED <<fnvars, callvars, srvvars>>

SpecPubsub == InitPubsub /\ [][NextPubsub]_vars

\* the three id counters, fresh or one step before their maximum
InitCounter ==
    /\ flavor = "text"
    /\ _connection_limit = 0
    /\ _socket_serial = Num(2)
    /\ _socket_pool = (One :> 1 @@ Num(2) :> 2)
    /\ _connected = 2
    /\ conn = [c \in Conns |-> IF c \in {1, 2} THEN "open" ELSE "idle"]
    /\ csid = [c \in Conns |-> IF c \in {1, 2} THEN Num(c) ELSE Zero]
    /\ _exposed_function = << >>
    /\ queues = << >>
    /\ nexposed = 0
    /\ last = NoApi
    /\ inv = [i \in Invs |-> NoInv]
    /\ ready = << >>
    /\ _call_id \in {Zero, Pred(_CALL_ID_MAX)}
    /\ _queue_id \in {Zero, Pred(_QUEUE_ID_MAX)}
    /\ _pubsub_id \in {Zero, Pred(_PUBSUB_ID_MAX)}
    /\ _call_memory = << >>
    /\ _queue_memory = << >>
    /\ call = [c \in Calls |-> NoCall]
    /\ sent = {}
    /\ replied = [c \in Calls |-> << >>]
    /\ _topic_manager = << >>
    /\ _topic_callback = << >>
    /\ _func_queue = << >>
    /\ log = << >>
    /\ pubs = << >>
    /\ nops = 0
    /\ InitSrvRunning

\* every operation that draws an id, and the dispatcher
NextCounter ==
    \/ \E c \in Calls, kind \in {"call", "push"} :
          Issue(c, kind, NoTimeout, NoTarget, TRUE)
          /\ UNCHANGED <<regvars, fnvars, pubvars, srvvars>>
    \/ CallNowait(NoTarget, "m") /\ UNCHANGED <<regvars, fnvars, srvvars>>
    \/ PushNowait(NoTarget, "m") /\ UNCHANGED <<regvars, fnvars, srvvars>>
    \/ \E x \in BOOLEAN :
          Publish("t1", x, "m") /\ UNCHANGED <<regvars, fnvars, callvars, srvvars>>
    \/ \E cn \in Conns :
          PubFromJs(cn, "t1", "false", "m") /\ UNCHANGED <<regvars, fnvars, callvars, srvvars>>
    \/ Dispatch /\ UNCHANGED <<regvars, fnvars, callvars>>

SpecCounter == InitCounter /\ [][NextCounter]_vars

\* ------------------------------------------------------------------ C1
InRange(n) ==
    /\ n[1] \in 0..(Half - 1) /\ n[2] \in 0..(Half - 1)
    /\ n # Zero
    /\ ~Greater(n, SERIAL_MAX)

\* the id counter value Num(i) for the small ids the model visits
LowIds == {Num(i) : i \in 1..(MaxSerial + 1)}

\* every registered id is in 1..2^32-1, belongs to exactly one connection,
\* and two registered connections never hold the same id
C1_IdsPositiveUnique ==
    /\ \A i \in PoolIds : InRange(i) /\ csid[_socket_pool[i]] = i
    /\ \A c \in Conns : csid[c] # Zero => InRange(csid[c]) /\ csid[c] \in PoolIds
    /\ \A c1, c2 \in Conns :
          (c1 # c2 /\ csid[c1] # Zero /\ csid[c2] # Zero) => csid[c1] # csid[c2]

\* an id is handed out only if no registered connection holds it, and the
\* first id handed out after SERIAL_MAX is the least id from 1 not in the pool
C1_AssignStep ==
    \A c \in Conns :
        (csid[c] = Zero /\ csid'[c] # Zero) =>
            /\ csid'[c] \notin PoolIds
            /\ _socket_serial' = csid'[c]
            /\ (_socket_serial = SERIAL_MAX =>
                   /\ csid'[c] \in LowIds
                   /\ \A j \in LowIds : Greater(csid'[c], j) => j \in PoolIds)

\* C1: for every sequence of connects and disconnects on one registry
\* instance (text or binary) each assigned socket id is in 1..2^32-1, no two
\* connected peers hold the same id, an id is assigned again only after its
\* holder left the pool, and past the maximum the counter restarts at 1 and
\* skips the ids still in the pool.
C1_SocketIds == []C1_IdsPositiveUnique /\ [][C1_AssignStep]_vars

\* the counter has wrapped past SERIAL_MAX and skipped id 1, still held by
\* the connection that got it on the first lap
C1_Witness ==
    /\ SERIAL_MAX \in PoolIds
    /\ One \in PoolIds
    /\ _socket_serial = Num(2)
    /\ \E c \in Conns : csid[c] = Num(2) /\ _socket_pool[Num(2)] = c

\* ------------------------------------------------------------------ C2
\* the invocations of key that run under the record now registered for it
RunningUnder(key) ==
    {i \in Invs : /\ inv[i].key = key
                  /\ inv[i].pc \in Running
                  /\ inv[i].exclusive = _exposed_function[key].exclusive}

\* C2: for a key exposed with exclusive=true, at most one invocation of the
\* key's function is between its start and its completion at any time.
C2_ExclusiveNoOverlap ==
    \A k \in Keys :
        (has(k) /\ _exposed_function[k].exclusive # None) =>
            Cardinality(RunningUnder(k)) <= 1

\* ------------------------------------------------------------------ C3
\* invocation j of key has arrived and has not started
Waiting(j, key) == inv[j].key = key /\ inv[j].pc \in {"created", "parked", "woken"}

C3_StartStep ==
    \A i \in Invs :
        (/\ inv[i].pc \in {"created", "woken"}
         /\ inv'[i].pc = "sleep1"
         /\ inv'[i].exclusive # None) =>
            \A j \in 1..(i - 1) :
                ~(/\ Waiting(j, inv[i].key)
                  /\ inv[j].pc = "created" \/ inv[j].exclusive = inv'[i].exclusive)

\* C3: for an exclusive key, an invocation never starts while a call of the
\* same key that arrived earlier is still waiting to start.
C3_ExclusiveFifo == [][C3_StartStep]_vars

\* ------------------------------------------------------------------ C10
C10_FlagWhileRunning ==
    \A i \in Invs : inv[i].pc \in Running => is_running(inv[i].key)

C10_RefusedWhileRunning ==
    (/\ nexposed' # nexposed
     /\ \E i \in Invs : inv[i].pc \in Running) =>
        _exposed_function' = _exposed_function

\* C10: while an invocation of key k is between start and completion,
\* is_running(k) is true and clear(k) / expose(k, ...) leave the record alone,
\* for exclusive and non-exclusive keys alike.
C10_RunningFlag == []C10_FlagWhileRunning /\ [][C10_RefusedWhileRunning]_vars

\* ------------------------------------------------------------------ C4
Returned(c, kind) == call[c].pc = "returned" /\ call[c].kind = kind

\* the targets of caller c whose reply arrived while c was waiting
RepliedTargets(c) == (DOMAIN replied[c]) \cap call[c].targets

C4_MapOfRepliers ==
    \A c \in Calls :
        Returned(c, "call") =>
            /\ DOMAIN call[c].result = RepliedTargets(c)
            /\ Cardinality(DOMAIN call[c].result) = Cardinality(RepliedTargets(c))

C4_NoLateReply ==
    \A c \in Calls : call[c].pc = "returned" => call'[c] = call[c]

\* C4: call(key, timeout=T) against N connected targets of which M send a
\* function_return in time returns a map of exactly M entries keyed by the
\* ids of those sockets, and a reply after the return changes no result.
C4_PartialResult == []C4_MapOfRepliers /\ [][C4_NoLateReply]_vars

\* ------------------------------------------------------------------ C5
\* a slot is settled only by a socket that has not replied to this call yet
C5_DuplicateIgnored ==
    \A c \in Calls : \A n \in DOMAIN call[c].futures :
        (/\ call[c].pc = "waiting"
         /\ ~call[c].futures[n].done
         /\ call'[c].futures[n].done) =>
            call'[c].futures[n].sock \notin DOMAIN replied[c]

\* the value returned for a socket is the one of its first reply
C5_FirstValueStays ==
    \A c \in Calls :
        Returned(c, "call") =>
            \A s \in DOMAIN call[c].result \cap DOMAIN replied[c] :
                /\ call[c].result[s].exc = replied[c][s].exc
                /\ call[c].result[s].data = replied[c][s].data

\* C5: per target socket the first reply wins; a second function_return of
\* the same socket with the same id is ignored and settles nobody's slot.
C5_FirstReplyWins == []C5_FirstValueStays /\ [][C5_DuplicateIgnored]_vars

\* ------------------------------------------------------------------ C6
C6_EntryIffPending ==
    \A id \in ReplyIds :
        id \in DOMAIN _call_memory <=>
            \E c \in Calls : /\ call[c].kind = "call"
                              /\ call[c].id = id
                              /\ call[c].pc = "waiting"

C6_EmptyTargetsSilent ==
    \A c \in Calls :
        (call[c].pc # "none" /\ call[c].targets = {}) =>
            /\ call[c].pc = "returned"
            /\ ~\E e \in sent : e.id = call[c].id /\
                    e.protocol = (IF call[c].kind = "call" THEN "function_call"
                                  ELSE "queue_call")

\* C6: the RPC correlation table holds an entry for an id exactly while the
\* call of that id is waiting; a call without targets makes no entry and
\* sends nothing.
C6_TableTracksPending == C6_EntryIffPending /\ C6_EmptyTargetsSilent

\* ------------------------------------------------------------------ C7
PositiveTimeout(c) == ~call[c].timeout.none /\ call[c].timeout.val > 0
AllSettled(c) == \A n \in DOMAIN call[c].futures : call[c].futures[n].done

C7_ReturnsOnlySettled ==
    \A c \in Calls :
        (call[c].pc = "waiting" /\ call'[c].pc # "waiting" /\ ~PositiveTimeout(c)) =>
            AllSettled(c) /\ call'[c].pc = "returned"

\* C7: a call or push with a positive timeout always returns; one with
\* timeout None, 0 or negative returns only when every slot is settled, and
\* does return once they are.
C7_TimeoutReturn ==
    /\ [][C7_ReturnsOnlySettled]_vars
    /\ \A c \in Calls :
          /\ (call[c].pc = "waiting" /\ PositiveTimeout(c)) ~> (call[c].pc = "returned")
          /\ (call[c].pc = "waiting" /\ AllSettled(c)) ~> (call[c].pc = "returned")

\* a push with a positive timeout has returned with a slot still pending
C7_Witness ==
    \E c \in Calls :
        /\ Returned(c, "push")
        /\ PositiveTimeout(c)
        /\ ~AllSettled(c)
        /\ call[c].result # << >>

\* ------------------------------------------------------------------ C8
\* a target of c that left the pool without having replied
GoneSilent(c) == {s \in call[c].targets : s \notin PoolIds /\ s \notin DOMAIN replied[c]}

\* the targets whose reply was taken as an answer: any function_return, and
\* a queue_return without an exception field
Answered(c) ==
    {s \in RepliedTargets(c) : call[c].kind = "call" \/ ~replied[c][s].exc}

C8_StaysSuspended ==
    \A c \in Calls :
        (call[c].pc = "waiting" /\ ~PositiveTimeout(c) /\ GoneSilent(c) # {}) =>
            call'[c].pc = "waiting"

C8_DisconnectSilent ==
    (\E cn \in Conns : conn[cn] = "open" /\ conn'[cn] = "idle") =>
        /\ call' = call
        /\ _call_memory' = _call_memory /\ _queue_memory' = _queue_memory

C8_ResultLacksGone ==
    \A c \in Calls :
        (call[c].pc = "returned" /\ GoneSilent(c) # {}) =>
            /\ GoneSilent(c) \cap DOMAIN call[c].result = {}
            /\ \A s \in Answered(c) : s \in DOMAIN call[c].result

\* C8: a target that disconnects before replying leaves its slot unresolved:
\* nothing is raised, the other targets' replies are collected, the result
\* lacks its id, and without a timeout the caller stays suspended.
C8_DisconnectMidCall ==
    /\ []C8_ResultLacksGone
    /\ [][C8_DisconnectSilent]_vars
    /\ [][C8_StaysSuspended]_vars

\* ------------------------------------------------------------------ C9
\* C9: when a targeted peer answers with a non-null exception field the call
\* does not raise; the map holds an error value under that peer's id whose
\* get_socket_id() is that id, and the other repliers' entries are present.
C9_ErrorAsValue ==
    \A c \in Calls :
        (call[c].kind = "call" /\ call[c].pc \in {"returned", "raised"}
         /\ \E s \in RepliedTargets(c) : replied[c][s].exc) =>
            /\ call[c].pc = "returned"
            /\ \A s \in RepliedTargets(c) :
                  /\ s \in DOMAIN call[c].result
                  /\ replied[c][s].exc =>
                        call[c].result[s].exc /\ call[c].result[s].socket_id = s
                  /\ ~replied[c][s].exc =>
                        ~call[c].result[s].exc /\
                            call[c].result[s].data = replied[c][s].data

\* ------------------------------------------------------------------ C11
Ended(i) == inv[i].pc \in {"done", "failed"}

\* C11: every inbound 'function_call' is answered by exactly one
\* function_return once its function has returned or raised (at once when the
\* key is not registered), an inbound 'function' by none, whatever other
\* invocations, expose and clear do in between.
C11_OneReply ==
    \A i \in Invs :
        /\ ~Ended(i) => inv[i].reply = "none"
        /\ Ended(i) =>
              /\ inv[i].protocol = "function_call" =>
                    inv[i].reply \in {"value", "error", "unregistered"}
              /\ inv[i].protocol = "function" => inv[i].reply = "none"

\* ------------------------------------------------------------------ C12
\* this step is a call of op: expose, clear or a decorator
ApiStep(op) == nexposed' = nexposed + 1 /\ last'.op = op

Registered(key) == key \in DOMAIN _exposed_function
FlagSet(key) == Registered(key) /\ _exposed_function[key].running

\* after the step the record of the call's key is the fresh one of its
\* arguments, with an empty wait list iff exclusive, and no other record moved
FreshRecord ==
    LET k == last'.key
    IN /\ k \in DOMAIN _exposed_function'
       /\ _exposed_function'[k].func = last'.func
       /\ _exposed_function'[k].running = FALSE
       /\ (_exposed_function'[k].exclusive # None) <=> last'.exclusive
       /\ last'.exclusive => queues'[_exposed_function'[k].exclusive] = << >>
       /\ \A j \in (DOMAIN _exposed_function) \ {k} :
             j \in DOMAIN _exposed_function' /\
             _exposed_function'[j] = _exposed_function[j]

TableKept == _exposed_function' = _exposed_function /\ queues' = queues

C12_ExposeStep ==
    ApiStep("expose") =>
        /\ (last'.ret = "False") <=> FlagSet(last'.key)
        /\ (last'.ret = "True") <=> ~FlagSet(last'.key)
        /\ FlagSet(last'.key) => TableKept
        /\ ~FlagSet(last'.key) => FreshRecord

\* C12: expose(key, fn, exclusive) returns false and changes nothing exactly
\* when key is registered with its running flag set; otherwise it returns
\* true and the record of key becomes (fn, not running, wait list iff
\* exclusive), replacing any previous record.
C12_Expose == [][C12_ExposeStep]_vars

\* expose has just refused a key whose flag is set, and has left its record
C12_Witness ==
    /\ last.op = "expose" /\ last.ret = "False"
    /\ FlagSet(last.key)
    /\ \E i \in Invs : inv[i].pc \in Running /\ inv[i].key = last.key

\* ------------------------------------------------------------------ C13
C13_AsExposeStep ==
    ApiStep("decorator") =>
        /\ (last'.ret = "KeyError") <=> FlagSet(last'.key)
        /\ FlagSet(last'.key) => TableKept
        /\ ~FlagSet(last'.key) => FreshRecord

C13_NameTakenStep ==
    ApiStep("decorator") =>
        /\ (last'.ret = "KeyError") <=> Registered(last'.key)
        /\ (last'.ret = "func") <=> ~Registered(last'.key)
        /\ Registered(last'.key) => TableKept
        /\ ~Registered(last'.key) => FreshRecord

IdAfter(n) == IF n = <<Half - 1, Half - 1>> THEN One ELSE Succ(n)

CounterStep(old, new) == new # old => new = IdAfter(old) /\ InRange(new)

\* the id an operation puts in its envelope is the counter's new value
C14_IssuedIsCounter ==
    /\ \A c \in Calls :
          (call[c].pc = "none" /\ call'[c].pc # "none") =>
              call'[c].id = (IF call'[c].kind = "call" THEN _call_id' ELSE _queue_id')
    /\ Len(pubs') > Len(pubs) => pubs'[Len(pubs')].id = _pubsub_id'
    /\ Len(_func_queue') > Len(_func_queue) =>
          LET item == _func_queue'[Len(_func_queue')]
          IN item.id = (IF item.protocol = "function" THEN _call_id'
                        ELSE IF item.protocol = "queue" THEN _queue_id'
                        ELSE _pubsub_id')
    /\ (Len(log') > Len(log) /\ log'[Len(log')].protocol = "pub"
                             /\ _func_queue' = _func_queue) =>
          log'[Len(log')].id = _pubsub_id'

C14_Step ==
    /\ CounterStep(_call_id, _call_id')
    /\ CounterStep(_queue_id, _queue_id')
    /\ CounterStep(_pubsub_id, _pubsub_id')
    /\ C14_IssuedIsCounter

\* C14: each correlation counter (RPC, queue, pub) issues ids in 1..2^32-1
\* only: every issued id is the one issued before plus 1, and 1 after the
\* maximum; 0 is never issued.
C14_Counters == [][C14_Step]_vars

\* the RPC counter has wrapped: call_nowait drew the maximum and call drew 1
C14_Witness ==
    /\ _call_id = One
    /\ \E c \in Calls : call[c].kind = "call" /\ call[c].id = One
    /\ \E n \in DOMAIN log :
          log[n].protocol = "function" /\ log[n].id = _CALL_ID_MAX

\* ------------------------------------------------------------------ C15
StoredIds == UNION {_topic_manager[i].subs : i \in DOMAIN _topic_manager}

\* C15: once the disconnect of socket s has been processed, s is in no
\* topic's subscription set, however many topics it had subscribed to and
\* whether or not it was the only subscriber of some: every id stored in a
\* subscription set is a connected socket.
C15_NoStaleSubscriber == StoredIds \subseteq PoolIds

\* ------------------------------------------------------------------ C16
\* C16: no topic of the subscription table maps to an empty set, after any
\* sequence of sub_call, unsub_call and disconnects; a key is in the table
\* once at most.
C16_NoEmptyTopic ==
    \A i \in DOMAIN _topic_manager :
        /\ _topic_manager[i].subs # {}
        /\ \A j \in DOMAIN _topic_manager :
              _topic_manager[j].key = _topic_manager[i].key => j = i

\* the last subscriber of a topic has unsubscribed, another has disconnected:
\* both topics they held alone are gone from the table
C16_Witness ==
    /\ _topic_manager = << >>
    /\ \E n \in DOMAIN log : log[n].protocol = "unsub_return" /\ log[n].exc = Null
    /\ \E m \in DOMAIN log :
          log[m].protocol = "sub_return" /\ log[m].exc = Null
          /\ log[m].to \cap PoolIds = {}

\* ------------------------------------------------------------------ C19
\* this step serves a 'sub_call' / 'unsub_call': its reply is the new last
\* entry of the history
Served(protocol) ==
    /\ Len(log') = Len(log) + 1
    /\ log'[Len(log')].protocol = protocol
    /\ nops' = nops + 1

Answer == log'[Len(log')]
Asker == CHOOSE s \in Answer.to : TRUE

\* the membership of every pair (topic, socket) other than (t, s) is kept
OthersKept(t, s) ==
    \A u \in Topics : \A x \in PoolIds \cup StoredIds :
        (u # t \/ x # s) =>
            (x \in Subscribers(_topic_manager', u) <=>
             x \in Subscribers(_topic_manager, u))

C19_SubStep ==
    Served("sub_return") =>
        /\ Cardinality(Answer.to) = 1 /\ Asker \in PoolIds
        /\ Answer.key \in Topics =>
              /\ Answer.exc = Null
              /\ Asker \in Subscribers(_topic_manager', Answer.key)
              /\ OthersKept(Answer.key, Asker)
              /\ Asker \in Subscribers(_topic_manager, Answer.key) =>
                    _topic_manager' = _topic_manager

C19_UnsubStep ==
    Served("unsub_return") =>
        /\ Cardinality(Answer.to) = 1 /\ Asker \in PoolIds
        /\ Answer.key \in Topics =>
              /\ Answer.exc = Null
              /\ Asker \notin Subscribers(_topic_manager', Answer.key)
              /\ OthersKept(Answer.key, Asker)
              /\ Asker \notin Subscribers(_topic_manager, Answer.key) =>
                    _topic_manager' = _topic_manager

\* C19: a sub_call of socket s for topic t makes s a member of t's set, an
\* unsub_call removes it; neither touches another topic or another socket's
\* membership, both are idempotent, and each is answered by one
\* sub_return / unsub_return with a null exception for a string topic.
C19_SubUnsub == [][C19_SubStep /\ C19_UnsubStep]_vars

\* socket 2 joined the topic socket 1 was in and then left it
C19_Witness ==
    /\ Len(log) = 3
    /\ log[1].protocol = "sub_return" /\ log[2].protocol = "sub_return"
    /\ log[3].protocol = "unsub_return"
    /\ log[1].key = "t1" /\ log[2].key = "t1" /\ log[3].key = "t1"
    /\ log[1].to = {Num(1)} /\ log[2].to = {Num(2)} /\ log[3].to = {Num(2)}
    /\ _topic_manager = <<[key |-> "t1", subs |-> {Num(1)}]>>

\* ------------------------------------------------------------------ C17
\* the history entries that hand publication p to socket s
Deliveries(p, s) ==
    {n \in DOMAIN log :
        /\ log[n].ev = "send" /\ log[n].protocol = "pub"
        /\ log[n].id = p.id /\ log[n].key = p.key /\ log[n].data = p.data
        /\ s \in log[n].to}

\* the runs of a local callback for publication p
CallbackRuns(p) ==
    {n \in DOMAIN log : log[n].ev = "callback" /\ log[n].id = p.id}

\* the dispatcher has run everything publication p reserved
Dispatched(p) == \A n \in DOMAIN _func_queue : _func_queue[n].id # p.id

\* C17: publish(t, suppress)(msg) with the dispatcher running: every socket
\* subscribed to t that stays connected is sent exactly one 'pub' envelope
\* with key t and data msg, no socket that is not subscribed to t is sent
\* it, and the callback bound to t runs once with (t, msg) if suppress is
\* False and never if it is True.
C17_ServerPublish ==
    \A k \in DOMAIN pubs :
        LET p == pubs[k]
        IN (p.by = Zero /\ p.data # Unencodable /\ Dispatched(p)) =>
              /\ \A s \in p.subs \cap PoolIds : Cardinality(Deliveries(p, s)) = 1
              /\ \A s \in PoolIds \ p.subs : Deliveries(p, s) = {}
              /\ Cardinality(CallbackRuns(p)) =
                    (IF p.suppress = "false" /\ p.cb # "" THEN 1 ELSE 0)
              /\ \A n \in CallbackRuns(p) :
                    log[n].cb = p.cb /\ log[n].key = p.key /\ log[n].data = p.data

\* ------------------------------------------------------------------ C18
C18_Step ==
    (Len(pubs') = Len(pubs) + 1 /\ pubs'[Len(pubs')].by # Zero) =>
        LET p == pubs'[Len(pubs')]
            fan == log'[Len(log')]
        IN p.by \in p.subs =>
              /\ fan.ev = "send" /\ fan.protocol = "pub"
              /\ fan.id = p.id /\ fan.key = p.key /\ fan.data = p.data
              /\ (p.by \notin fan.to) <=> (p.suppress = "true")
              /\ \A x \in (p.subs \cap PoolIds) \ {p.by} : x \in fan.to

\* C18: for a 'pub_call' of subscribed socket S on topic t, S is left out of
\* the 'pub' fan-out exactly when the suppress flag of the envelope is true;
\* with false or null S is sent it like every other subscriber, and every
\* other subscriber of t is sent it in both cases.
C18_SelfEcho == [][C18_Step]_vars

\* ------------------------------------------------------------------ C20
\* C20: the list push(key, timeout=T)(value) returns holds exactly the ids of
\* the targeted sockets whose 'queue_return' arrived before the return, each
\* id once; a socket that did not acknowledge in time, or that was not a
\* connected target when the push was issued, is never in the list.
C20_PushAcks ==
    \A c \in Calls :
        Returned(c, "push") =>
            /\ \A s \in Answered(c) : s \in DOMAIN call[c].result
            /\ \A s \in DOMAIN call[c].result :
                  s \in RepliedTargets(c) /\ call[c].result[s] = 1

\* ------------------------------------------------------------------ C21
\* the ack slots of push c that are still pending
PendingSlots(c) == {n \in DOMAIN call[c].futures : ~call[c].futures[n].done}

\* a 'queue_return' of socket s with an exception field has just arrived for
\* the waiting push c
ErrorAck(c, s) ==
    /\ call[c].kind = "push" /\ call[c].pc = "waiting"
    /\ s \notin DOMAIN replied[c] /\ s \in DOMAIN replied'[c]
    /\ replied'[c][s].exc

C21_ErrorSettles ==
    \A c \in Calls : \A s \in PoolIds :
        (ErrorAck(c, s) /\ PendingSlots(c) # {}) =>
            \E n \in PendingSlots(c) :
                /\ call'[c].futures[n].done
                /\ \A m \in PendingSlots(c) \ {n} : ~call'[c].futures[m].done

\* a push all of whose targets have answered has no pending slot left, so
\* asyncio.wait returns without the timeout
C21_AllAnsweredDone ==
    \A c \in Calls :
        (/\ call[c].kind = "push" /\ call[c].pc = "waiting"
         /\ call[c].targets \subseteq DOMAIN replied[c]) => PendingSlots(c) = {}

\* C21: a 'queue_return' with a non-null exception field whose id matches a
\* pending push settles one pending ack slot of it (the slot is no longer
\* pending and adds no id to the ack list), and a push whose targets have all
\* answered, with ack or error, returns without waiting for its timeout.
C21_ErrorAckSettles == [][C21_ErrorSettles]_vars /\ []C21_AllAnsweredDone

\* ------------------------------------------------- server-side queue store
QueueKeys == {"q1", "q2"}
QueueKeyArgs == QueueKeys \cup {Unhashable}
QueueCallbacks == {"qcb"}
QueueKeyError == "The queue key name is incorrect @python"

\* the API calls leave the reactor's other state alone
StoreFrame == UNCHANGED <<_pubsub_id, _topic_manager, _topic_callback, pubs>>

Returns(op, arg, val) == ret' = [op |-> op, arg |-> arg, val |-> val, at |-> nops + 1]

\* the orders in which a "for x in S" loop may walk the set S
Orders(S) ==
    {q \in [1..Cardinality(S) -> S] : \A i, j \in DOMAIN q : i # j => q[i] # q[j]}

\* asyncio.iscoroutinefunction(callback)
IsCoroutineCallback(cb) == cb = "qcb_async"
IsPlainCallback(cb) == ~IsCoroutineCallback(cb)

\* history entry: asyncio.create_task(callback(key)) has been called
TaskEvent(cb, k) ==
    [ev |-> "task", to |-> {}, protocol |-> "", key |-> k, id |-> Zero,
     data |-> "", exc |-> Null, cb |-> cb]

\* lines 477-483 walking the callbacks in order o: the plain ones are
\* reserved on the dispatcher, the coroutine functions become tasks
Reserved(o, k) ==
    LET plain == SelectSeq(o, IsPlainCallback)
    IN [n \in DOMAIN plain |-> CallbackItem(plain[n], k, Zero, "")]
Tasks(o, k) ==
    LET co == SelectSeq(o, IsCoroutineCallback)
    IN [n \in DOMAIN co |-> TaskEvent(co[n], k)]

\* lines 472-473 and 484-485: the envelopes _queue sends to socket s
QueueReply(s, k, id, protocol, failed) ==
    IF protocol = "queue_call"
    THEN <<SendEvent({s}, "queue_return", k, id, Null,
                     IF failed THEN QueueKeyError ELSE Null)>>
    ELSE << >>

\* an append at the left end
ArriveLeft(stack, k, d) ==
    [q \in DOMAIN stack \cup {k} |->
        IF q = k
        THEN (IF k \in DOMAIN stack THEN <<d>> \o stack[k] ELSE <<d>>)
        ELSE stack[q]]

\* deque.append on the queue of key k, made on first arrival
Arrive(stack, k, d) ==
    [q \in DOMAIN stack \cup {k} |->
        IF q = k
        THEN (IF k \in DOMAIN stack THEN Append(stack[k], d) ELSE <<d>>)
        ELSE stack[q]]

\* _queue for a 'queue' / 'queue_call' envelope of connection cn with key k;
\* its datum is the (nops + 1)-th thing the server is handed
Queue(cn, k, protocol) ==
    /\ nops < MaxStoreOps /\ nops' = nops + 1
    /\ conn[cn] = "open"
    /\ LET failed == k = Unhashable
           reply == QueueReply(csid[cn], k, EnvelopeId, protocol, failed)
       IN IF failed
          THEN /\ log' = log \o reply
               /\ UNCHANGED <<_queue_stack, _func_queue>>
          ELSE /\ _queue_stack' = Arrive(_queue_stack, k, nops + 1)
               /\ \E o \in Orders(_queue_callbacks) :
                     /\ _func_queue' = _func_queue \o Reserved(o, k)
                     /\ log' = log \o Tasks(o, k) \o reply
    /\ UNCHANGED <<_queue_callbacks, _socket_events, _startup_task, nran, ret>>
    /\ StoreFrame

\* a pop that takes the left end
PopLeftEnd(q) == [val |-> q[1], rest |-> Tail(q)]

\* deque.pop() / deque.popleft()
PopRight(q) == [val |-> q[Len(q)], rest |-> SubSeq(q, 1, Len(q) - 1)]
PopLeft(q) == [val |-> q[1], rest |-> Tail(q)]

\* pop(key, default_value) and shift(key, default_value)
Take(op, k, taken) ==
    /\ nops < MaxStoreOps /\ nops' = nops + 1
    /\ IF k \in DOMAIN _queue_stack /\ Len(_queue_stack[k]) > 0
       THEN /\ _queue_stack' = [_queue_stack EXCEPT ![k] = taken.rest]
            /\ Returns(op, k, Datum(taken.val))
       ELSE /\ UNCHANGED _queue_stack
            /\ Returns(op, k, Value("default"))
    /\ UNCHANGED <<_queue_callbacks, _socket_events, _startup_task, nran, _func_queue, log>>
    /\ StoreFrame

Pop(k) ==
    Take("pop", k, IF k \in DOMAIN _queue_stack /\ Len(_queue_stack[k]) > 0
                   THEN PopRight(_queue_stack[k]) ELSE [val |-> 0, rest |-> << >>])

Shift(k) ==
    Take("shift", k, IF k \in DOMAIN _queue_stack /\ Len(_queue_stack[k]) > 0
                     THEN PopLeft(_queue_stack[k]) ELSE [val |-> 0, rest |-> << >>])

\* clear(key), clear_all(), remove(key), remove_all()
StoreEdit(op, k, stack) ==
    /\ nops < MaxStoreOps /\ nops' = nops + 1
    /\ _queue_stack' = stack
    /\ Returns(op, k, Value("None"))
    /\ UNCHANGED <<_queue_callbacks, _socket_events, _startup_task, nran, _func_queue, log>>
    /\ StoreFrame

ClearQueue(k) ==
    StoreEdit("clear", k, [q \in DOMAIN _queue_stack |->
                              IF q = k THEN << >> ELSE _queue_stack[q]])
ClearAll == StoreEdit("clear_all", "", [q \in DOMAIN _queue_stack |-> << >>])

\* a remove that empties the store when its key is absent
RemoveOrReset(k) ==
    StoreEdit("remove", k, IF k \in DOMAIN _queue_stack
                           THEN [q \in (DOMAIN _queue_stack) \ {k} |-> _queue_stack[q]]
                           ELSE << >>)

\* remove(key): lines 441-443
Remove(k) ==
    StoreEdit("remove", k, [q \in (DOMAIN _queue_stack) \ {k} |-> _queue_stack[q]])
RemoveAll == StoreEdit("remove_all", "", << >>)

\* has(key)
Has(k) == k \in DOMAIN _queue_stack

\* add_callback(func) and clear_callback()
AddCallback(cb) ==
    /\ nops < MaxStoreOps /\ nops' = nops + 1
    /\ _queue_callbacks' = _queue_callbacks \cup {cb}
    /\ Returns("add_callback", cb, Value("None"))
    /\ UNCHANGED <<_queue_stack, _socket_events, _startup_task, nran, _func_queue, log>>
    /\ StoreFrame

ClearCallback ==
    /\ nops < MaxStoreOps /\ nops' = nops + 1
    /\ _queue_callbacks' = {}
    /\ Returns("clear_callback", "", Value("None"))
    /\ UNCHANGED <<_queue_stack, _socket_events, _startup_task, nran, _func_queue, log>>
    /\ StoreFrame

\* two clients are connected, the dispatcher runs, the store is empty
InitStore == InitPubsub

NextStore ==
    \/ \E k \in QueueKeyArgs, p \in {"queue", "queue_call"} :
          Queue(1, k, p) /\ UNCHANGED <<regvars, fnvars, callvars>>
    \/ \E k \in QueueKeys : Pop(k) /\ UNCHANGED <<regvars, fnvars, callvars>>
    \/ \E k \in QueueKeys : Shift(k) /\ UNCHANGED <<regvars, fnvars, callvars>>
    \/ \E k \in QueueKeys : ClearQueue(k) /\ UNCHANGED <<regvars, fnvars, callvars>>
    \/ ClearAll /\ UNCHANGED <<regvars, fnvars, callvars>>
    \/ \E k \in QueueKeys : Remove(k) /\ UNCHANGED <<regvars, fnvars, callvars>>
    \/ RemoveAll /\ UNCHANGED <<regvars, fnvars, callvars>>
    \/ AddCallback("qcb") /\ UNCHANGED <<regvars, fnvars, callvars>>
    \/ ClearCallback /\ UNCHANGED <<regvars, fnvars, callvars>>
    \/ Dispatch /\ UNCHANGED <<regvars, fnvars, callvars>>

SpecStore == InitStore /\ [][NextStore]_vars

\* ------------------------------------------------------------------ C22
\* the data of a queue are its arrivals in arrival order
ArrivalOrder(q) == \A i, j \in DOMAIN q : i < j => q[i] < q[j]

C22_Deque == \A k \in DOMAIN _queue_stack : ArrivalOrder(_queue_stack[k])

\* the call made in this step, if it was op(k)
Called(op, k) == ret'.at = nops + 1 /\ ret'.op = op /\ ret'.arg = k

Holds(k) == k \in DOMAIN _queue_stack /\ Len(_queue_stack[k]) > 0

OtherQueuesKept(k) ==
    /\ DOMAIN _queue_stack' = DOMAIN _queue_stack
    /\ \A q \in (DOMAIN _queue_stack) \ {k} : _queue_stack'[q] = _queue_stack[q]

C22_PopStep ==
    \A k \in QueueKeys :
        Called("pop", k) =>
            IF Holds(k)
            THEN LET q == _queue_stack[k]
                 IN /\ ret'.val = Datum(q[Len(q)])
                    /\ \A i \in DOMAIN q : q[i] <= ret'.val.n
                    /\ _queue_stack'[k] = SubSeq(q, 1, Len(q) - 1)
                    /\ OtherQueuesKept(k)
            ELSE ret'.val = Value("default") /\ _queue_stack' = _queue_stack

C22_ShiftStep ==
    \A k \in QueueKeys :
        Called("shift", k) =>
            IF Holds(k)
            THEN LET q == _queue_stack[k]
                 IN /\ ret'.val = Datum(q[1])
                    /\ \A i \in DOMAIN q : q[i] >= ret'.val.n
                    /\ _queue_stack'[k] = Tail(q)
                    /\ OtherQueuesKept(k)
            ELSE ret'.val = Value("default") /\ _queue_stack' = _queue_stack

\* pop, shift, clear and clear_all keep every key; only remove and
\* remove_all take keys away
C22_KeyKept ==
    (\E k \in DOMAIN _queue_stack : k \notin DOMAIN _queue_stack') =>
        (ret'.at = nops + 1 /\ ret'.op \in {"remove", "remove_all"})

\* C22: with the arrival sequence a1..an in the queue of key k, pop(k, d)
\* removes and returns an and shift(k, d) removes and returns a1; when k is
\* absent or its queue is empty both return d and change nothing; under any
\* interleaving of arrivals, pop and shift the queue is a double-ended queue;
\* a queue emptied by pop, shift or clear keeps its key until remove(k) or
\* remove_all().
C22_PopShift ==
    /\ []C22_Deque
    /\ [][C22_PopStep /\ C22_ShiftStep /\ C22_KeyKept]_vars

\* three arrivals on q1, the latest popped and then the earliest shifted
C22_Witness ==
    /\ nops = MaxStoreOps
    /\ Has("q1") /\ _queue_stack["q1"] = <<2>>
    /\ ret.op = "shift" /\ ret.arg = "q1" /\ ret.val = Datum(1)

\* ------------------------------------------- dispatcher life cycle, close
\* startup_handler: the framework calls it once, when the server starts
Startup ==
    /\ _startup_task = "none"
    /\ _startup_task' = "running"
    /\ UNCHANGED <<_queue_stack, _queue_callbacks, _socket_events, nran, ret>>

\* shutdown_handler: cancel() reaches _event_loop at the await it is
\* suspended in, whether asyncio.sleep(0) or the item it awaits
Shutdown ==
    /\ _startup_task \in {"running", "awaiting"}
    /\ _startup_task' = "cancelled"
    /\ UNCHANGED <<_queue_stack, _queue_callbacks, _socket_events, nran, ret>>

\* a close_socket that always reports success
CloseAnswerTrue(id) == Value("True")

\* what close_socket returns: lines 254-262
CloseAnswer(id) == IF id \in PoolIds THEN Value("True") ELSE Value("False")

\* close_socket(socket_id)
CloseSocket(id) ==
    /\ nops < MaxOps /\ nops' = nops + 1
    /\ _func_queue' = IF id \in PoolIds
                       THEN Append(_func_queue, CloseItem(_socket_pool[id]))
                       ELSE _func_queue
    /\ Returns("close_socket", id, CloseAnswer(id))
    /\ UNCHANGED <<_queue_stack, _queue_callbacks, _socket_events, _startup_task, nran>>
    /\ UNCHANGED <<_pubsub_id, _topic_manager, _topic_callback, log, pubs>>

\* _event_loop takes a reserved close: "await reserve[0](*reserve[1])". On a
\* connection that is open the close frame goes out and the loop is
\* suspended until the send completes; on one that was closed before, or is
\* gone, the call raises and the loop discards the exception
DispatchClose ==
    /\ LoopTakes
    /\ Head(_func_queue).fn = "close"
    /\ _func_queue' = Tail(_func_queue)
    /\ nran' = nran + 1
    /\ LET c == Head(_func_queue).ws
       IN IF conn[c] = "open"
          THEN /\ conn' = [conn EXCEPT ![c] = "closed"]
               /\ _startup_task' = "awaiting"
          ELSE UNCHANGED <<conn, _startup_task>>
    /\ UNCHANGED <<flavor, _socket_serial, _socket_pool, _connected,
                   _connection_limit, csid>>
    /\ UNCHANGED <<_queue_stack, _queue_callbacks, _socket_events, ret>>
    /\ UNCHANGED <<_pubsub_id, _topic_manager, _topic_callback, log, pubs, nops>>

\* the awaited item has finished: line 81, the loop yields and goes on
CloseDone ==
    /\ _startup_task = "awaiting"
    /\ _startup_task' = "running"
    /\ UNCHANGED <<_queue_stack, _queue_callbacks, _socket_events, nran, ret>>

\* unsubscribe(topic) and what it returns
UnsubscribeCall(t) ==
    /\ Unsubscribe(t)
    /\ Returns("unsubscribe", t, Value("True"))
    /\ UNCHANGED <<_queue_stack, _queue_callbacks, _socket_events, _startup_task, nran>>

\* the server-side API on a running server with two clients
NextApi ==
    \/ \E t \in Topics, cb \in Callbacks :
          Subscribe(t, cb) /\ UNCHANGED <<regvars, fnvars, callvars, srvvars>>
    \/ \E t \in Topics : UnsubscribeCall(t) /\ UNCHANGED <<regvars, fnvars, callvars>>
    \/ \E k \in QueueKeys : Queue(1, k, "queue") /\ UNCHANGED <<regvars, fnvars, callvars>>
    \/ \E k \in QueueKeys : Remove(k) /\ UNCHANGED <<regvars, fnvars, callvars>>
    \/ AddCallback("qcb") /\ UNCHANGED <<regvars, fnvars, callvars>>
    \/ ClearCallback /\ UNCHANGED <<regvars, fnvars, callvars>>
    \/ \E id \in {Num(n) : n \in 1..MaxConn} :
          CloseSocket(id) /\ UNCHANGED <<regvars, fnvars, callvars>>
    \/ DispatchClose /\ UNCHANGED <<fnvars, callvars>>
    \/ CloseDone /\ UNCHANGED <<regvars, fnvars, callvars, pubvars>>
    \/ Dispatch /\ UNCHANGED <<regvars, fnvars, callvars>>
    \/ \E c \in Conns : DisconnectEvent(c) /\ UNCHANGED <<fnvars, callvars, srvvars>>

SpecApi == InitPubsub /\ [][NextApi]_vars

\* ------------------------------------------------------------------ C23
\* the tables of the server are what they were before the step
TablesKept ==
    /\ UNCHANGED <<_topic_callback, _topic_manager, _queue_stack, _queue_callbacks,
                   _socket_events, _socket_pool, _connected, conn, csid,
                   _func_queue, _startup_task, log>>

C23_Step ==
    /\ \A t \in Topics :
          (Called("unsubscribe", t) /\ t \notin DOMAIN _topic_callback) =>
              TablesKept /\ ret'.val = Value("True")
    /\ \A k \in QueueKeys :
          (Called("remove", k) /\ ~Has(k)) =>
              TablesKept /\ ret'.val = Value("None")
    /\ (Called("clear_callback", "") /\ _queue_callbacks = {}) =>
              TablesKept /\ ret'.val = Value("None")
    /\ \A id \in {Num(n) : n \in 1..MaxConn} :
          (Called("close_socket", id) /\ id \notin PoolIds) =>
              TablesKept /\ ret'.val = Value("False")

\* C23: unsubscribe(topic) with no callback bound, remove(key) on an absent
\* key, clear_callback() with no callbacks and close_socket(id) on an id that
\* is not connected raise nothing, leave every table as it is and return
\* True, None, None and False; so two such calls in a row leave the state
\* one call leaves.
C23_AbsentNoop == [][C23_Step]_vars

\* socket 1 has left; close_socket(1) has just answered False
C23_Witness ==
    /\ ret.op = "close_socket" /\ ret.arg = Num(1) /\ ret.val = Value("False")
    /\ Num(1) \notin PoolIds /\ Num(2) \in PoolIds

\* ------------------------------------------------------------------ C24
\* the limit test of on_connect, made when accept has completed
OverLimit == _connection_limit > 0 /\ _connected > _connection_limit

Rejecting == {"reject_send", "reject_close", "closed"}

C24_AssignStep ==
    \A c \in Conns :
        (conn[c] = "accept" /\ conn'[c] # "accept") =>
            /\ _connection_limit = 0 => conn'[c] \notin Rejecting
            /\ OverLimit <=> conn'[c] \in Rejecting
            /\ flavor = "text" =>
                  conn'[c] = (IF OverLimit THEN "reject_send" ELSE "greet_send")

\* a rejected peer is closed and never served; when its disconnect is
\* processed its id leaves the pool and the count goes down by one
C24_RejectedStep ==
    \A c \in Conns :
        /\ (conn[c] = "reject_send" /\ conn'[c] # conn[c]) => conn'[c] = "reject_close"
        /\ (conn[c] = "reject_close" /\ conn'[c] # conn[c]) => conn'[c] = "closed"
        /\ (conn[c] = "closed" /\ conn'[c] # conn[c]) =>
              /\ conn'[c] = "idle"
              /\ csid[c] \notin DOMAIN _socket_pool'
              /\ _connected' = _connected - 1

\* the count is the number of peers between connect and disconnect, and the
\* pool holds exactly the ids of those that have been given one
C24_NoLeak ==
    /\ _connected = Cardinality({c \in Conns : conn[c] # "idle"})
    /\ PoolIds = {csid[c] : c \in {d \in Conns : conn[d] \notin {"idle", "accept"}}}

\* C24: with connection limit 0 no peer is rejected; with limit n > 0 a peer
\* whose connect takes the count above n is sent the rejection envelope
\* instead of its socket id and is closed; when its disconnect has been
\* processed its id is out of the pool and the count is what it was before
\* that connect, however many connects are rejected.
C24_ConnectionLimit == []C24_NoLeak /\ [][C24_AssignStep /\ C24_RejectedStep]_vars

\* limit 1: the first peer is served, the second was rejected and closed
C24_Witness ==
    /\ _connection_limit = 1 /\ flavor = "text"
    /\ \E c, d \in Conns : conn[c] = "open" /\ conn[d] = "closed"

\* ------------------------------------------------------------------ C25
\* the dispatcher runs and takes every item it can; the framework delivers
\* the disconnect of a connection that was closed
FairSpecApi ==
    /\ SpecApi
    /\ WF_vars(DispatchClose /\ UNCHANGED <<fnvars, callvars>>)
    /\ WF_vars(CloseDone /\ UNCHANGED <<regvars, fnvars, callvars, pubvars>>)
    /\ WF_vars(Dispatch /\ UNCHANGED <<regvars, fnvars, callvars>>)
    /\ \A c \in Conns :
          WF_vars(conn[c] = "closed" /\ DisconnectEvent(c)
                  /\ UNCHANGED <<fnvars, callvars, srvvars>>)

SocketIds == {Num(n) : n \in 1..MaxConn}

\* close_socket answers whether the id is in the pool and only reserves
C25_CallStep ==
    \A id \in SocketIds :
        Called("close_socket", id) =>
            /\ ret'.val = (IF id \in PoolIds THEN Value("True") ELSE Value("False"))
            /\ UNCHANGED <<_socket_pool, _connected, conn, csid>>
            /\ _func_queue' = (IF id \in PoolIds
                               THEN Append(_func_queue, CloseItem(_socket_pool[id]))
                               ELSE _func_queue)

\* the dispatcher's close leaves the pool to the disconnect handler, and a
\* reserved close of a connection that is closed already changes nothing
C25_DispatchStep ==
    (nran' = nran + 1 /\ Head(_func_queue).fn = "close") =>
        /\ UNCHANGED <<_socket_pool, _connected, csid>>
        /\ conn[Head(_func_queue).ws] # "open" => UNCHANGED conn

\* an id for which close_socket answered True leaves the pool
C25_Removed ==
    \A id \in SocketIds :
        (ret.op = "close_socket" /\ ret.arg = id /\ ret.val = Value("True"))
            ~> (id \notin PoolIds)

\* C25: close_socket(id) returns true iff id is in the pool and does not
\* itself change the pool: it only reserves the close, so the id stays
\* registered until the dispatcher runs the close and the disconnect handler
\* removes it; with the dispatcher running the id is eventually removed; a
\* second close_socket(id) before that also returns true and its reserved
\* close has no further effect.
C25_CloseSocket ==
    /\ [][C25_CallStep /\ C25_DispatchStep]_vars
    /\ C25_Removed

\* close_socket(1) was called twice; the first reserved close has been run,
\* socket 1 has been removed, and the second has been run as well
C25_Witness ==
    /\ ret.op = "close_socket" /\ ret.arg = Num(1) /\ ret.val = Value("True")
    /\ ret.at = 2 /\ nran = 2
    /\ Num(1) \notin PoolIds /\ _func_queue = << >>

\* ----------------------------------------------------- dispatcher spec
\* the process has been loaded and the server has not started yet
InitDispatch ==
    /\ flavor = "text"
    /\ _connection_limit = 0
    /\ _socket_serial = Zero
    /\ _socket_pool = << >>
    /\ _connected = 0
    /\ conn = [c \in Conns |-> "idle"]
    /\ csid = [c \in Conns |-> Zero]
    /\ _exposed_function = << >>
    /\ queues = << >>
    /\ nexposed = 0
    /\ last = NoApi
    /\ inv = [i \in Invs |-> NoInv]
    /\ ready = << >>
    /\ InitCallVars
    /\ InitPubVars
    /\ InitSrvVars

\* a connection handle is a new object: no reserved close refers to it
FreshHandle(c) == \A n \in DOMAIN _func_queue : _func_queue[n].ws # c

NextDispatch ==
    \/ Startup /\ UNCHANGED <<regvars, fnvars, callvars, pubvars>>
    \/ Shutdown /\ UNCHANGED <<regvars, fnvars, callvars, pubvars>>
    \/ \E c \in Conns :
          \* one client connects, once the server has started
          /\ _startup_task # "none" /\ FreshHandle(c) /\ _connected = 0
          /\ c = 1 /\ _socket_serial = Zero
          /\ ConnectBegin(c) /\ UNCHANGED <<fnvars, callvars, pubvars, srvvars>>
    \/ \E c \in Conns : ConnectAssign(c) /\ UNCHANGED <<fnvars, callvars, pubvars, srvvars>>
    \/ \E c \in Conns : ConnectGreeted(c) /\ UNCHANGED <<fnvars, callvars, pubvars, srvvars>>
    \/ \E c \in Conns : DisconnectEvent(c) /\ UNCHANGED <<fnvars, callvars, srvvars>>
    \/ Subscribe("t1", "cb1") /\ UNCHANGED <<regvars, fnvars, callvars, srvvars>>
    \/ \E msg \in Messages :
          Publish("t1", FALSE, msg) /\ UNCHANGED <<regvars, fnvars, callvars, srvvars>>
    \/ \E msg \in Messages :
          CallNowait(NoTarget, msg) /\ UNCHANGED <<regvars, fnvars, srvvars>>
    \/ CloseSocket(One) /\ UNCHANGED <<regvars, fnvars, callvars>>
    \/ Dispatch /\ UNCHANGED <<regvars, fnvars, callvars>>
    \/ DispatchClose /\ UNCHANGED <<fnvars, callvars>>
    \/ CloseDone /\ UNCHANGED <<regvars, fnvars, callvars, pubvars>>

SpecDispatch == InitDispatch /\ [][NextDispatch]_vars

\* _event_loop is rescheduled after every "await asyncio.sleep(0)" and when
\* the item it awaits has finished
FairSpecDispatch ==
    /\ SpecDispatch
    /\ WF_vars(Dispatch /\ UNCHANGED <<regvars, fnvars, callvars>>)
    /\ WF_vars(DispatchClose /\ UNCHANGED <<fnvars, callvars>>)
    /\ WF_vars(CloseDone /\ UNCHANGED <<regvars, fnvars, callvars, pubvars>>)

\* ------------------------------------------------------------------ C26
\* the reserved items without the mark the model keeps of a deleted topic set
Submitted(q) == [n \in DOMAIN q |-> [q[n] EXCEPT !.ref = ""]]

IsPrefix(a, b) == Len(a) <= Len(b) /\ SubSeq(b, 1, Len(a)) = a

\* the loop takes the oldest item, only between items of a started and not
\* cancelled loop, and goes on whatever the item does
C26_TakeStep ==
    (nran' # nran) =>
        /\ nran' = nran + 1
        /\ _startup_task = "running"
        /\ _func_queue # << >> /\ _func_queue' = Tail(_func_queue)
        /\ _startup_task' \in {"running", "awaiting"}
        /\ LET item == Head(_func_queue)
           IN /\ item.fn = "callback" =>
                    log' = Append(log, CallbackEvent(item.cb, item.key, item.id,
                                                     item.data))
              /\ (item.fn = "multicast" /\ item.data # Unencodable) =>
                    /\ Len(log') = Len(log) + 1
                    /\ log'[Len(log')].protocol = item.protocol
                    /\ log'[Len(log')].id = item.id
              /\ (item.fn = "multicast" /\ item.data = Unencodable) => log' = log

\* nothing but the loop takes items away, and submissions join at the end
C26_KeepStep ==
    (nran' = nran) => IsPrefix(Submitted(_func_queue), Submitted(_func_queue'))

\* a cancelled loop stays cancelled
C26_CancelledStep == (_startup_task = "cancelled") => (_startup_task' = "cancelled")

\* while the loop lives the oldest item is taken
C26_Drains ==
    \A n \in 0..(2 * MaxOps) :
        (nran = n /\ _func_queue # << >> /\ _startup_task \in {"running", "awaiting"})
            ~> (nran > n \/ _startup_task = "cancelled")

\* C26: the dispatcher executes the submitted items one at a time in
\* submission order, each at most once, starting one only after the previous
\* one returned, finished awaiting or raised; an item that raises is discarded
\* and the items after it are still executed; items submitted before startup
\* stay queued and run after startup; after the loop is cancelled at shutdown
\* no item is executed.
C26_Dispatcher ==
    /\ [][C26_TakeStep /\ C26_KeepStep /\ C26_CancelledStep]_vars
    /\ C26_Drains

\* two items were reserved, the first one raised when it was run (its
\* message cannot be encoded), and the second one has been run too
C26_Witness ==
    /\ nran = 2 /\ _func_queue = << >> /\ nops = 2
    /\ Len(log) = 1 /\ log[1].protocol = "function" /\ log[1].id = Num(2)

\* ------------------------------------------------- lifecycle listeners
\* a listener that returns and one that raises
Listeners == {"l_ok", "l_raise"}

\* history entry: listener l was called with (s, event)
ListenerEvent(l, s, event) ==
    [ev |-> "listener", to |-> {s}, protocol |-> event, key |-> "", id |-> Zero,
     data |-> "", exc |-> Null, cb |-> l]

\* a loop that is left when a listener raises
NotifyUntilRaise(order, s, event) ==
    LET stop == IF \E n \in DOMAIN order : order[n] = "l_raise"
                THEN CHOOSE n \in DOMAIN order : order[n] = "l_raise"
                ELSE Len(order)
    IN [n \in 1..stop |-> ListenerEvent(order[n], s, event)]

\* lines 509-516 / 537-544: every listener is called inside its own try
NotifyAll(order, s, event) ==
    [n \in DOMAIN order |-> ListenerEvent(order[n], s, event)]

Notify(s, event) ==
    \E order \in Orders(_socket_events) : log' = log \o NotifyAll(order, s, event)

ListenerFrame ==
    UNCHANGED <<_pubsub_id, _topic_manager, _topic_callback, _func_queue, pubs, nops>>

\* add_socket_event(func) and clear_socket_event()
AddSocketEvent(l) ==
    /\ nops < MaxOps /\ nops' = nops + 1
    /\ _socket_events' = _socket_events \cup {l}
    /\ UNCHANGED <<_queue_stack, _queue_callbacks, _startup_task, nran, ret>>
    /\ UNCHANGED <<_pubsub_id, _topic_manager, _topic_callback, _func_queue, pubs, log>>

ClearSocketEvent ==
    /\ nops < MaxOps /\ nops' = nops + 1
    /\ _socket_events' = {}
    /\ UNCHANGED <<_queue_stack, _queue_callbacks, _startup_task, nran, ret>>
    /\ UNCHANGED <<_pubsub_id, _topic_manager, _topic_callback, _func_queue, pubs, log>>

\* socket_handler of the binary registry calls the listeners right after
\* _append_socket when the peer is admitted, and not at all when it is not
ConnectAssignEvent(c) ==
    /\ ConnectAssign(c)
    /\ IF flavor = "binary" /\ ~OverLimit
       THEN Notify(csid'[c], "connect")
       ELSE UNCHANGED log
    /\ ListenerFrame

\* on_connect of the text registry calls them when its send_json, or its
\* ws.close(), has completed
ConnectGreetedEvent(c) ==
    /\ ConnectGreeted(c) /\ Notify(csid[c], "connect") /\ ListenerFrame

ConnectRejectClosedEvent(c) ==
    /\ ConnectRejectClosed(c)
    /\ IF flavor = "text" THEN Notify(csid[c], "connect") ELSE UNCHANGED log
    /\ ListenerFrame

\* on_disconnect / the tail of socket_handler
DisconnectNotify(c) ==
    /\ Disconnect(c) /\ Notify(csid[c], "disconnect") /\ ListenerFrame

\* a fresh registry of either flavor, no listener registered yet
InitListener ==
    /\ flavor \in {"text", "binary"}
    /\ _connection_limit = 0
    /\ _socket_serial = Zero
    /\ _socket_pool = << >>
    /\ _connected = 0
    /\ conn = [c \in Conns |-> "idle"]
    /\ csid = [c \in Conns |-> Zero]
    /\ _exposed_function = << >>
    /\ queues = << >>
    /\ nexposed = 0
    /\ last = NoApi
    /\ inv = [i \in Invs |-> NoInv]
    /\ ready = << >>
    /\ InitCallVars
    /\ InitPubVars
    /\ InitSrvRunning

\* the peers that have connected so far
Peers == _socket_serial[2] + Cardinality({c \in Conns : conn[c] = "accept"})

NextListener ==
    \/ \E l \in Limits : SetConnectionLimit(l) /\ UNCHANGED <<fnvars, callvars, pubvars, srvvars>>
    \/ \E l \in Listeners : AddSocketEvent(l) /\ UNCHANGED <<regvars, fnvars, callvars>>
    \/ ClearSocketEvent /\ UNCHANGED <<regvars, fnvars, callvars>>
    \/ \E c \in Conns :
          /\ Peers < MaxPeers
          /\ ConnectBegin(c) /\ UNCHANGED <<fnvars, callvars, pubvars, srvvars>>
    \/ \E c \in Conns : ConnectAssignEvent(c) /\ UNCHANGED <<fnvars, callvars, srvvars>>
    \/ \E c \in Conns : ConnectGreetedEvent(c) /\ UNCHANGED <<fnvars, callvars, srvvars>>
    \/ \E c \in Conns : ConnectRejectSent(c) /\ UNCHANGED <<fnvars, callvars, pubvars, srvvars>>
    \/ \E c \in Conns : ConnectRejectClosedEvent(c) /\ UNCHANGED <<fnvars, callvars, srvvars>>
    \/ \E c \in Conns : DisconnectNotify(c) /\ UNCHANGED <<fnvars, callvars, srvvars>>

SpecListener == InitListener /\ [][NextListener]_vars

\* ------------------------------------------------------------------ C27
\* what the step has added to the history
Added == SubSeq(log', Len(log) + 1, Len(log'))

\* every registered listener was called once with (s, event), nothing else
EachOnce(s, event) ==
    /\ Len(Added) = Cardinality(_socket_events)
    /\ \A l \in _socket_events :
          Cardinality({n \in DOMAIN Added : Added[n] = ListenerEvent(l, s, event)}) = 1

\* on_connect of the text registry has sent its first envelope (or closed)
C27_ConnectStep ==
    \A c \in Conns :
        (/\ flavor = "text"
         /\ conn[c] \in {"greet_send", "reject_close"}
         /\ conn'[c] \in {"open", "closed"}) =>
            /\ EachOnce(csid[c], "connect")
            /\ csid[c] \in DOMAIN _socket_pool' /\ _socket_pool' = _socket_pool
            /\ _connected' = _connected

C27_DisconnectStep ==
    \A c \in Conns :
        (/\ flavor = "text"
         /\ conn[c] \in {"open", "closed"} /\ conn'[c] = "idle") =>
            /\ EachOnce(csid[c], "disconnect")
            /\ csid[c] \notin DOMAIN _socket_pool'
            /\ _connected' = _connected - 1

\* the listeners are called at no other moment
C27_OnlyThen ==
    (flavor = "text" /\ log' # log) =>
        \E c \in Conns : /\ conn[c] \in {"greet_send", "reject_close", "open", "closed"}
                          /\ conn'[c] # conn[c]

ProtocolTable ==
    {"function_return", "function_call", "function",
     "sub_call", "unsub_call", "pub_call",
     "queue", "queue_call", "queue_return"}

Fields == {"protocol", "key", "id", "data", "exception"}

\* a text frame: whether json.loads accepts it, what it decodes to, the names
\* the "in" tests find in it, and its protocol tag and key
Frame(decodes, shape, fields, protocol, key) ==
    [decodes |-> decodes, shape |-> shape, fields |-> fields,
     protocol |-> protocol, key |-> key]

Tags == {"system", "later", Unhashable, "sub_call", "unsub_call", "pub_call",
         "queue", "queue_call"}

Frames ==
    {Frame(FALSE, "", {}, "", "")}
    \cup {Frame(TRUE, "number", {}, "", "")}
    \cup {Frame(TRUE, "string", Fields, "", "")}
    \cup {Frame(TRUE, "object", Fields \ {f}, "sub_call", "t1") : f \in Fields}
    \cup {Frame(TRUE, "object", Fields, tag, "t1") : tag \in Tags}

\* a router that looks up the handler without testing the five fields
RouteUnchecked(frame) ==
    IF ~frame.decodes \/ frame.shape # "object" THEN "drop"
    ELSE IF frame.protocol \notin ProtocolTable THEN "drop"
    ELSE frame.protocol

\* on_receive lines 520-531: the handler the frame is given to, or "drop"
\* when an exception ends the try block or the five-field test fails
Route(frame) ==
    IF ~frame.decodes THEN "drop"                 \* json.loads raises
    ELSE IF frame.shape = "number" THEN "drop"    \* "in" raises TypeError
    ELSE IF ~(Fields \subseteq frame.fields) THEN "drop"
    ELSE IF frame.shape # "object" THEN "drop"    \* indexing raises TypeError
    ELSE IF frame.protocol \notin ProtocolTable THEN "drop"   \* KeyError, TypeError
    ELSE frame.protocol

\* history entry: on_receive has returned without calling a handler
DropEvent(s, frame) ==
    [ev |-> "drop", to |-> {s}, protocol |-> frame.protocol, key |-> frame.key,
     id |-> Zero, data |-> frame.shape, exc |-> Null, cb |-> ""]

\* on_receive for a frame of connection cn
OnReceive(cn, frame) ==
    /\ conn[cn] = "open"
    /\ LET handler == Route(frame)
       IN CASE handler = "drop" ->
                 /\ nops < MaxOps /\ nops' = nops + 1
                 /\ log' = Append(log, DropEvent(csid[cn], frame))
                 /\ UNCHANGED <<_pubsub_id, _topic_manager, _topic_callback,
                                _func_queue, pubs, srvvars>>
            [] handler = "sub_call" -> SubFromJs(cn, frame.key) /\ UNCHANGED srvvars
            [] handler = "unsub_call" -> UnsubFromJs(cn, frame.key) /\ UNCHANGED srvvars
            [] handler = "pub_call" ->
                 PubFromJs(cn, frame.key, "false", "m") /\ UNCHANGED srvvars
            [] handler \in {"queue", "queue_call"} -> Queue(cn, "q1", handler)

NextReceive ==
    \/ \E cn \in Conns, frame \in Frames :
          OnReceive(cn, frame) /\ UNCHANGED <<regvars, fnvars, callvars>>
    \/ _queue_callbacks = {} /\ AddCallback("qcb") /\ UNCHANGED <<regvars, fnvars, callvars>>
    \/ Dispatch /\ UNCHANGED <<regvars, fnvars, callvars>>
    \/ \E c \in Conns : DisconnectEvent(c) /\ UNCHANGED <<fnvars, callvars, srvvars>>

SpecReceive == InitPubsub /\ [][NextReceive]_vars

\* ------------------------------------------------------------------ C28
\* the frames the claim is about
Malformed(frame) ==
    \/ ~frame.decodes
    \/ ~(Fields \subseteq frame.fields)
    \/ frame.protocol \notin ProtocolTable

C28_Routed == \A frame \in Frames : Malformed(frame) => Route(frame) = "drop"

\* a dropped frame runs no handler, sends nothing and changes no table; its
\* connection stays registered and goes on receiving
C28_DropStep ==
    (Len(log') = Len(log) + 1 /\ log'[Len(log')].ev = "drop") =>
        /\ UNCHANGED <<regvars, fnvars, callvars, srvvars>>
        /\ UNCHANGED <<_pubsub_id, _topic_manager, _topic_callback, _func_queue, pubs>>
        /\ \A s \in log'[Len(log')].to :
              s \in PoolIds /\ conn'[_socket_pool[s]] = "open"

\* C28: an inbound frame that cannot be decoded, lacks one of the five
\* fields, or carries a protocol tag without a registered handler ('system'
\* included) is dropped: no handler runs, nothing is sent to the peer, the
\* pool and every table are unchanged, and the connection stays registered
\* and keeps receiving.
C28_DropsMalformed == []C28_Routed /\ [][C28_DropStep]_vars

\* socket 1 subscribed, then sent a 'sub_call' without its id field and a
\* 'system' frame: both were dropped and its subscription is as it was
C28_Witness ==
    /\ Len(log) = 3 /\ log[1].protocol = "sub_return"
    /\ log[2] = DropEvent(One, Frame(TRUE, "object", Fields \ {"id"}, "sub_call", "t1"))
    /\ log[3] = DropEvent(One, Frame(TRUE, "object", Fields, "system", "t1"))
    /\ Subscribers(_topic_manager, "t1") = {One}

\* ------------------------------------------------------------------ C30
\* the invocations woken from the wait list of key that have not resumed
WokenFor(key) == {i \in Invs : inv[i].pc = "woken" /\ inv[i].key = key}

\* the wait list of the record registered under an exclusive key
WaitList(key) == queues[_exposed_function[key].exclusive]

\* C30: in every reachable state, if the wait list of an exclusive key is
\* non-empty, or a waiter has been popped and woken but has not yet resumed,
\* the running flag of the key is true.
C30_HandoffFlag ==
    \A key \in DOMAIN _exposed_function :
        _exposed_function[key].exclusive # None =>
            ((WaitList(key) # << >> \/ WokenFor(key) # {}) =>
                 _exposed_function[key].running)

\* ------------------------------------------------------------------ C29
\* the engine after the application has exposed py_key, not exclusive, while
\* the module loads
InitExposed ==
    /\ flavor = "text"
    /\ _connection_limit = 0
    /\ _socket_serial = One
    /\ _socket_pool = (One :> 1)
    /\ _connected = 1
    /\ conn = [c \in Conns |-> IF c = 1 THEN "open" ELSE "idle"]
    /\ csid = [c \in Conns |-> IF c = 1 THEN One ELSE Zero]
    /\ _exposed_function = ("py_key" :> NewRecord("coroutine", FALSE))
    /\ queues = << >>
    /\ nexposed = 0
    /\ last = NoApi
    /\ inv = [i \in Invs |-> NoInv]
    /\ ready = << >>
    /\ InitCallVars
    /\ InitPubVars
    /\ InitSrvVars

\* MaxWaitInv 'function_call' envelopes whose functions return
NextExposed == EngineNext(MaxWaitInv, {"function_call"}, {"value"})

SpecExposed == InitExposed /\ [][NextExposed]_vars

\* the reactor runs the task at the head of its FIFO
ReactorStep ==
    \E i \in Invs :
        \/ StepCreated(i)
        \/ StepWoken(i)
        \/ \E suspends \in BOOLEAN : StepCallFunc(i, suspends, "value")
        \/ StepFuncDone(i, "value")
        \/ StepEnd(i)

\* the reactor never stops, and every execution of a function terminates
FairSpecExposed ==
    /\ SpecExposed
    /\ WF_vars(ReactorStep /\ UNCHANGED <<regvars, callvars, pubvars, srvvars>>)
    /\ WF_vars((\E i \in Invs : FuncWakes(i))
                  /\ UNCHANGED <<regvars, callvars, pubvars, srvvars>>)

Parked(i) == inv[i].pc = "parked"

\* func has been called for invocation i
Executed(i) == inv[i].pc \in {"in_func", "func_done", "sleep2", "done"}

\* C29: every invocation parked on the wait list of an exclusive key is
\* eventually woken and executed, when every execution of the function
\* terminates; no waiter stays parked for ever.
C29_WaiterWoken == \A i \in Invs : Parked(i) ~> Executed(i)

\* ------------------------------------------------- router and its handlers
\* history entries of the router: the i-th 'function_call' envelope has
\* arrived from socket s ("arrive"), its task has run for the first time
\* ("start"), its task has ended ("end")
HandlerEvent(what, s, i) ==
    [ev |-> what, to |-> {s}, protocol |-> "function_call", key |-> "py_key",
     id |-> Num(i), data |-> Null, exc |-> Null, cb |-> ""]

\* the socket whose envelope task i serves
SenderOf(i) ==
    LET p == CHOOSE q \in 1..Len(log) : log[q].ev = "arrive" /\ log[q].id = Num(i)
    IN CHOOSE s \in log[p].to : TRUE

KeepPubsub == UNCHANGED <<_pubsub_id, _topic_manager, _topic_callback, _func_queue, pubs, nops>>

\* on_receive lines 525-527 for a 'function_call' of connection cn: the
\* handler is a coroutine function, its task is created and not awaited
RouteCall(cn) ==
    /\ conn[cn] = "open"
    /\ inv[MaxRouted].pc = "none"
    /\ ReceiveCall("py_key", "function_call")
    /\ \E i \in Invs :
          /\ inv[i].pc = "none" /\ inv'[i].pc = "created"
          /\ log' = Append(log, HandlerEvent("arrive", csid[cn], i))
    /\ KeepPubsub

\* on_receive lines 528-529 for a 'sub_call' of connection cn: the handler
\* is a plain function and runs inside on_receive
RouteSub(cn, t) == _topic_manager = << >> /\ SubFromJs(cn, t)

\* the first run of task i
RouteStart(i) ==
    /\ StepCreated(i)
    /\ log' = Append(log, HandlerEvent("start", SenderOf(i), i))
    /\ KeepPubsub

\* the last run of task i: lines 550-561
RouteEnd(i) ==
    /\ StepEnd(i)
    /\ log' = Append(log, HandlerEvent("end", SenderOf(i), i))
    /\ KeepPubsub

\* two clients are connected and py_key is exposed, exclusive or not
InitRouter ==
    /\ flavor = "text"
    /\ _connection_limit = 0
    /\ _socket_serial = Num(2)
    /\ _socket_pool = (One :> 1 @@ Num(2) :> 2)
    /\ _connected = 2
    /\ conn = [c \in Conns |-> IF c \in {1, 2} THEN "open" ELSE "idle"]
    /\ csid = [c \in Conns |-> IF c \in {1, 2} THEN Num(c) ELSE Zero]
    /\ \E x \in BOOLEAN :
          /\ queues = IF x THEN << << >> >> ELSE << >>
          /\ _exposed_function =
                ("py_key" :> [func |-> "coroutine", iscoroutine |-> TRUE,
                              running |-> FALSE,
                              exclusive |-> IF x THEN 1 ELSE None])
    /\ nexposed = 0
    /\ last = NoApi
    /\ inv = [i \in Invs |-> NoInv]
    /\ ready = << >>
    /\ InitCallVars
    /\ InitPubVars
    /\ InitSrvRunning

NextRouter ==
    \/ \E cn \in Conns : RouteCall(cn) /\ UNCHANGED <<regvars, callvars, srvvars>>
    \/ \E cn \in Conns : RouteSub(cn, "t1") /\ UNCHANGED <<regvars, fnvars, callvars, srvvars>>
    \/ \E i \in Invs : RouteStart(i) /\ UNCHANGED <<regvars, callvars, srvvars>>
    \/ \E i \in Invs : StepWoken(i) /\ UNCHANGED <<regvars, callvars, pubvars, srvvars>>
    \/ \E i \in Invs, suspends \in BOOLEAN :
          StepCallFunc(i, suspends, "value") /\ UNCHANGED <<regvars, callvars, pubvars, srvvars>>
    \/ \E i \in Invs : FuncWakes(i) /\ UNCHANGED <<regvars, callvars, pubvars, srvvars>>
    \/ \E i \in Invs :
          StepFuncDone(i, "value") /\ UNCHANGED <<regvars, callvars, pubvars, srvvars>>
    \/ \E i \in Invs : RouteEnd(i) /\ UNCHANGED <<regvars, callvars, srvvars>>
    \/ \E k \in Keys : Clear(k) /\ UNCHANGED <<regvars, callvars, pubvars, srvvars>>

SpecRouter == InitRouter /\ [][NextRouter]_vars

\* ------------------------------------------------------------------ C31
\* where in the history task i arrived, started and ended (0: not yet)
At(what, i) ==
    LET P == {p \in 1..Len(log) : log[p].ev = what /\ log[p].id = Num(i)}
    IN IF P = {} THEN 0 ELSE CHOOSE p \in P : TRUE

\* where the handlers of 'sub_call' envelopes ran
SubAt == {p \in 1..Len(log) : log[p].ev = "send" /\ log[p].protocol = "sub_return"}

\* the router only schedules an asynchronous handler
C31_RouteStep ==
    \A i \in Invs :
        (inv[i].pc = "none" /\ inv'[i].pc # "none") =>
            /\ inv'[i].pc = "created"
            /\ ready' = Append(ready, i)
            /\ \A j \in Invs \ {i} : inv'[j] = inv[j]
            /\ UNCHANGED <<_exposed_function, queues>>

\* asynchronous handlers start in the order in which their envelopes arrived
C31_AsyncInOrder ==
    \A i, j \in Invs :
        (i < j /\ At("start", j) # 0) =>
            (At("start", i) # 0 /\ At("start", i) < At("start", j))

\* every handler, inline or scheduled, starts after those of earlier envelopes
C31_AllInOrder ==
    /\ C31_AsyncInOrder
    /\ \A i \in Invs, q \in SubAt :
          (At("arrive", i) # 0 /\ At("arrive", i) < q) =>
              (At("start", i) # 0 /\ At("start", i) < q)

ArrivalCallbacks == {"qcb", "qcb_raise", "qcb_async"}

NextArrival ==
    \/ \E cn \in {1, 2}, k \in QueueKeyArgs, p \in {"queue", "queue_call"} :
          Queue(cn, k, p) /\ UNCHANGED <<regvars, fnvars, callvars>>
    \/ \E cb \in ArrivalCallbacks :
          cb \notin _queue_callbacks /\ AddCallback(cb)
             /\ UNCHANGED <<regvars, fnvars, callvars>>
    \/ _queue_callbacks # {} /\ ClearCallback /\ UNCHANGED <<regvars, fnvars, callvars>>
    \/ Dispatch /\ UNCHANGED <<regvars, fnvars, callvars>>

SpecArrival == InitPubsub /\ [][NextArrival]_vars

\* ------------------------------------------------------------------ C32
\* a step in which an envelope was stored
Stored == ret' = ret /\ _queue_stack' # _queue_stack

IsTask(e) == e.ev = "task"
IsSend(e) == e.ev = "send"

\* how often x occurs in the sequence q
Count(q, x) == Cardinality({n \in DOMAIN q : q[n] = x})

\* the step appends its datum to the right end of one deque, reserves or
\* starts every registered callback once with that key, and sends at most a
\* 'queue_return' with the envelope's id
C32_StoreStep ==
    Stored =>
      \E k \in QueueKeys :
        LET old == IF k \in DOMAIN _queue_stack THEN _queue_stack[k] ELSE << >>
            added == SubSeq(_func_queue', Len(_func_queue) + 1, Len(_func_queue'))
            said == SubSeq(log', Len(log) + 1, Len(log'))
            tasks == SelectSeq(said, IsTask)
            replies == SelectSeq(said, IsSend)
        IN /\ DOMAIN _queue_stack' = DOMAIN _queue_stack \cup {k}
           /\ _queue_stack'[k] = Append(old, nops + 1)
           /\ \A q \in DOMAIN _queue_stack \ {k} : _queue_stack'[q] = _queue_stack[q]
           /\ SubSeq(_func_queue', 1, Len(_func_queue)) = _func_queue
           /\ SubSeq(log', 1, Len(log)) = log
           /\ \A cb \in _queue_callbacks :
                 IF IsCoroutineCallback(cb)
                 THEN Count(tasks, TaskEvent(cb, k)) = 1
                 ELSE Count(added, CallbackItem(cb, k, Zero, "")) = 1
           /\ Len(added) + Len(tasks) = Cardinality(_queue_callbacks)
           /\ Len(said) = Len(tasks) + Len(replies)
           /\ Len(replies) <= 1
           /\ \A n \in DOMAIN replies :
                 /\ replies[n].protocol = "queue_return" /\ replies[n].key = k
                 /\ replies[n].id = EnvelopeId /\ replies[n].exc = Null
                 /\ \E s \in PoolIds : replies[n].to = {s}

\* a reply is sent exactly for a 'queue_call', and it carries the id
C32_Reply ==
    \A s \in PoolIds, k \in QueueKeyArgs, p \in {"queue", "queue_call"}, f \in BOOLEAN :
        LET reply == QueueReply(s, k, One, p, f)
        IN /\ (reply # << >>) <=> (p = "queue_call")
           /\ \A n \in DOMAIN reply :
                 /\ reply[n].protocol = "queue_return" /\ reply[n].id = One
                 /\ reply[n].key = k /\ reply[n].to = {s}

\* a callback taken by the dispatcher, raising or not, touches neither the
\* store nor the callbacks reserved after it
C32_RunStep ==
    (nran' = nran + 1) =>
        /\ _queue_stack' = _queue_stack
        /\ _func_queue' = Tail(_func_queue)
        /\ \A n \in 1..Len(log) : log'[n] = log[n]

C32_InOrder == \A k \in DOMAIN _queue_stack : ArrivalOrder(_queue_stack[k])

Published == Len(pubs') = Len(pubs) + 1 /\ pubs'[Len(pubs')].by # Zero

\* what _pub_from_js does, in order: the 'pub_return' to the publisher with
\* the key and id of its envelope, then the call of the callback bound to the
\* topic, then the 'pub' envelope to the subscribers
C33_PubStep ==
    Published =>
      LET p == pubs'[Len(pubs')]
          t == p.key
          said == SubSeq(log', Len(log) + 1, Len(log'))
          bound == t \in DOMAIN _topic_callback
          listed == HasTopic(_topic_manager, t)
          subs == Subscribers(_topic_manager, t) \cap PoolIds
      IN /\ SubSeq(log', 1, Len(log)) = log
         /\ Len(said) = 1 + (IF bound THEN 1 ELSE 0) + (IF listed THEN 1 ELSE 0)
         /\ said[1].ev = "send" /\ said[1].protocol = "pub_return"
         /\ said[1].key = t /\ said[1].id = EnvelopeId /\ said[1].to = {p.by}
         /\ bound =>
               /\ said[2].ev = "callback" /\ said[2].cb = _topic_callback[t]
               /\ said[2].key = t
         /\ listed =>
               /\ said[Len(said)].ev = "send" /\ said[Len(said)].protocol = "pub"
               /\ said[Len(said)].key = t
               /\ said[Len(said)].to \subseteq subs
               /\ subs \ {p.by} \subseteq said[Len(said)].to

\* C33: for every inbound 'pub_call' a 'pub_return' with the same key and id
\* is issued to the publisher first, whether or not the topic has a
\* subscriber or a callback; then the callback bound to the topic is invoked
\* once; then the 'pub' envelope is fanned out to the subscribers of the
\* topic. A callback that raises prevents neither fan-out nor pub_return.
C33_PubOrder == [][C33_PubStep]_vars

\* a 'pub_call' for a topic whose callback raises and which has a
\* subscriber: pub_return, the callback, then the 'pub' envelope
C33_Witness ==
    \E n \in DOMAIN log :
        /\ n + 2 \in DOMAIN log
        /\ log[n].ev = "send" /\ log[n].protocol = "pub_return"
        /\ log[n + 1].ev = "callback" /\ CallbackRaises(log[n + 1].cb)
        /\ log[n + 2].ev = "send" /\ log[n + 2].protocol = "pub"
        /\ log[n + 2].to # {}

\* ------------------------------------------------------------------ C34
\* C34: only targeted sockets settle a pending call or push: a reply that
\* carries its correlation id but comes from a connected socket outside its
\* targets settles no slot, so every key of a result map and every element
\* of an ack list is a targeted socket id.
C34_OnlyTargetsSettle ==
    \A c \in Calls :
        /\ \A n \in DOMAIN call[c].futures :
              call[c].futures[n].done => call[c].futures[n].sock \in call[c].targets
        /\ call[c].pc = "returned" => DOMAIN call[c].result \subseteq call[c].targets

\* ------------------------------------------------------------------ C35
\* the sockets broadcast, multicast(None), call(target=None) and
\* push(target=None) address
EveryoneTargets == TargetSockets([type |-> "none", ids |-> {}], PoolIds)

Admitted == {c \in Conns : conn[c] \in {"greet_send", "open"}}

\* C36: with the limit at n > 0 a connecting peer is rejected only if at
\* least n connections that were not rejected themselves are registered when
\* its limit check runs, also when accepts interleave or a rejected peer has
\* not finished disconnecting.
C36_RejectStep ==
    \A c \in Conns :
        (conn[c] = "accept" /\ conn'[c] \in Rejecting) =>
            Cardinality(Admitted) >= _connection_limit

C36_RejectedOnlyWhenFull == [][C36_RejectStep]_vars

\* ------------------------------------------------ listeners of both flavors
\* a fresh registry of either flavor whose listeners were all registered
\* while the application was loaded
InitNotify ==
    /\ flavor \in {"text", "binary"}
    /\ _connection_limit = 0
    /\ _socket_serial = Zero
    /\ _socket_pool = << >>
    /\ _connected = 0
    /\ conn = [c \in Conns |-> "idle"]
    /\ csid = [c \in Conns |-> Zero]
    /\ _exposed_function = << >>
    /\ queues = << >>
    /\ nexposed = 0
    /\ last = NoApi
    /\ inv = [i \in Invs |-> NoInv]
    /\ ready = << >>
    /\ InitCallVars
    /\ InitPubVars
    /\ _queue_stack = << >>
    /\ _queue_callbacks = {}
    /\ _socket_events = Listeners
    /\ _startup_task = "running"
    /\ nran = 0
    /\ ret = NoRet

NextNotify ==
    \/ \E l \in Limits : SetConnectionLimit(l) /\ UNCHANGED <<fnvars, callvars, pubvars, srvvars>>
    \/ \E c \in Conns :
          /\ Peers < MaxPeers
          /\ ConnectBegin(c) /\ UNCHANGED <<fnvars, callvars, pubvars, srvvars>>
    \/ \E c \in Conns : ConnectAssignEvent(c) /\ UNCHANGED <<fnvars, callvars, srvvars>>
    \/ \E c \in Conns : ConnectGreetedEvent(c) /\ UNCHANGED <<fnvars, callvars, srvvars>>
    \/ \E c \in Conns : ConnectRejectSent(c) /\ UNCHANGED <<fnvars, callvars, pubvars, srvvars>>
    \/ \E c \in Conns : ConnectRejectClosedEvent(c) /\ UNCHANGED <<fnvars, callvars, srvvars>>
    \/ \E c \in Conns : DisconnectNotify(c) /\ UNCHANGED <<fnvars, callvars, srvvars>>

SpecNotify == InitNotify /\ [][NextNotify]_vars

\* ------------------------------------------------------------------ C37
\* the places in the history where listener l was told event of socket s
Told(l, s, event) == {n \in DOMAIN log : log[n] = ListenerEvent(l, s, event)}

\* the socket ids the listeners were told of
Notified == {log[n].to : n \in {m \in DOMAIN log : log[m].ev = "listener"}}

\* C37: in both flavors, for every connection a listener is notified with
\* (s, 'connect') at most once and with (s, 'disconnect') at most once, the
\* connect first; no 'disconnect' is delivered for a socket id for which no
\* 'connect' was delivered, connections rejected by the limit included.
C37_ConnectFirst ==
    \A l \in Listeners, S \in Notified :
        \A s \in S :
            /\ Cardinality(Told(l, s, "connect")) <= 1
            /\ Cardinality(Told(l, s, "disconnect")) <= 1
            /\ \A n \in Told(l, s, "disconnect") :
                  \E m \in Told(l, s, "connect") : m < n

\* ------------------------------------------------------------------ C38
\* a step in which call(...)(*args) or push(...)(data) raised TypeError
Raised(c) == call[c].pc = "none" /\ call'[c].pc = "raised"

\* C38: a call or push that fails with TypeError because its payload cannot
\* be encoded leaves the correlation tables with the entries they had before
\* the call; only the id counter has advanced.
C38_FailedStep ==
    \A c \in Calls :
        Raised(c) =>
            /\ DOMAIN _call_memory' = DOMAIN _call_memory
            /\ DOMAIN _queue_memory' = DOMAIN _queue_memory

C38_NoTraceOfFailure == [][C38_FailedStep]_vars

\* ---------------------------------------------------- correlation id wrap
Callers == 1..MaxCallers

\* a call or push with id 1 is waiting for sockets 1 and 2, without timeout;
\* the counter is where that call left it, or has reached its maximum since
InitWrap ==
    /\ flavor = "text"
    /\ _connection_limit = 0
    /\ _socket_serial = Num(2)
    /\ _socket_pool = (One :> 1 @@ Num(2) :> 2)
    /\ _connected = 2
    /\ conn = [c \in Conns |-> IF c \in {1, 2} THEN "open" ELSE "idle"]
    /\ csid = [c \in Conns |-> IF c \in {1, 2} THEN Num(c) ELSE Zero]
    /\ _exposed_function = << >>
    /\ queues = << >>
    /\ nexposed = 0
    /\ last = NoApi
    /\ inv = [i \in Invs |-> NoInv]
    /\ ready = << >>
    /\ \E kind \in {"call", "push"}, lap \in {"same", "wrapped"} :
          /\ _call_id = (IF kind # "call" THEN Zero
                         ELSE IF lap = "same" THEN One ELSE _CALL_ID_MAX)
          /\ _queue_id = (IF kind # "push" THEN Zero
                          ELSE IF lap = "same" THEN One ELSE _QUEUE_ID_MAX)
          /\ _call_memory = (IF kind = "call" THEN (One :> 1) ELSE << >>)
          /\ _queue_memory = (IF kind = "push" THEN (One :> 1) ELSE << >>)
          /\ call = [c \in Callers |->
                       IF c = 1
                       THEN [NoCall EXCEPT !.pc = "waiting", !.kind = kind, !.id = One,
                                           !.targets = {One, Num(2)},
                                           !.futures = <<PendingFuture, PendingFuture>>]
                       ELSE NoCall]
          /\ sent = {[to |-> s, id |-> One,
                      protocol |-> IF kind = "call" THEN "function_call"
                                   ELSE "queue_call"] : s \in {One, Num(2)}}
    /\ replied = [c \in Callers |-> << >>]
    /\ InitPubVars
    /\ InitSrvVars

NextWrap ==
    \/ \E c \in Callers, kind \in {"call", "push"},
          t \in {NoTimeout, [none |-> FALSE, val |-> 5]} :
          Issue(c, kind, t, [type |-> "none", ids |-> {}], TRUE)
             /\ UNCHANGED <<regvars, fnvars, pubvars, srvvars>>
    \/ \E cn \in {1, 2}, kind \in {"call", "push"}, id \in {One, Num(2)},
          content \in Contents :
          ReceiveReturn(cn, kind, id, content) /\ UNCHANGED <<regvars, fnvars, pubvars, srvvars>>
    \/ \E c \in Callers : ReturnAllDone(c) /\ UNCHANGED <<regvars, fnvars, pubvars, srvvars>>
    \/ \E c \in Callers : ReturnTimeout(c) /\ UNCHANGED <<regvars, fnvars, pubvars, srvvars>>

SpecWrap == InitWrap /\ [][NextWrap]_vars

\* ------------------------------------------------------------------ C39
Outstanding(c) == call[c].pc = "waiting"

\* no two outstanding calls, and no two outstanding pushes, hold the same id
C39_DistinctIds ==
    \A c, d \in Callers :
        (c # d /\ Outstanding(c) /\ Outstanding(d) /\ call[c].kind = call[d].kind) =>
            call[c].id # call[d].id

\* the entry of a call that stays outstanding stays its own
C39_EntryKept ==
    \A c \in Callers :
        (Outstanding(c) /\ call'[c].pc = "waiting"
            /\ call[c].id \in DOMAIN Memory(call[c].kind)
            /\ Memory(call[c].kind)[call[c].id] = c) =>
            /\ call[c].id \in DOMAIN (IF call[c].kind = "call" THEN _call_memory'
                                        ELSE _queue_memory')
            /\ (IF call[c].kind = "call" THEN _call_memory'
                 ELSE _queue_memory')[call[c].id] = c

\* C39: no two simultaneously outstanding call() invocations, and no two
\* outstanding push() invocations, hold the same correlation id, also after
\* the counter has wrapped from its maximum back to 1 while an old call is
\* pending; issuing or completing a call never overwrites or removes the
\* pending entry of another.
C39_UniqueWhilePending == []C39_DistinctIds /\ [][C39_EntryKept]_vars

\* ------------------------------------------------------------------ C40
\* the dispatcher has just run a deferred item of a server-side publication
Deferred(p) ==
    /\ p.by = Zero
    /\ Len(log') = Len(log) + 1
    /\ _func_queue # << >> /\ _func_queue' = Tail(_func_queue)
    /\ Head(_func_queue).id = p.id /\ Head(_func_queue).key = p.key

\* what the dispatcher does for publication p is what was fixed when the
\* sender closure was invoked: the 'pub' envelope goes to no socket that was
\* not subscribed then, the callback run is the one bound then
C40_DeferredStep ==
    \A k \in DOMAIN pubs :
        LET p == pubs[k]
            e == log'[Len(log')]
        IN Deferred(p) =>
              /\ (e.ev = "send" /\ e.protocol = "pub") => e.to \subseteq p.subs
              /\ e.ev = "callback" => e.cb = p.cb

\* C40: the recipients of a server-side publish are fixed when the sender
\* closure is invoked: a socket that subscribes after publish(t)(msg) returned
\* and before the dispatcher's deferred send is not sent that message, and
\* the callback invoked is the one bound at invocation.
C40_FixedAtInvocation == [][C40_DeferredStep]_vars

====
